---- MODULE Spec2Model ----
(***************************************************************************)
(* DOHMANE entity store: the immutable store value with its three buckets  *)
(* (initial / current / deleted) and the _nextKey counter, the registry of *)
(* entity types, and the accessors of every entity type.                   *)
(*                                                                         *)
(* Every accessor is a pure function store -> store; the state machine     *)
(* holds the one store value an application threads through its calls.     *)
(* A call that throws leaves the caller with the store it had.             *)
(***************************************************************************)
EXTENDS Integers, FiniteSets, Sequences, TLC

VARIABLES store, op, steps, autoKeys
\* the cascade of one current.delete or deleted.accept, call by call: the
\* store it works on, the stack of calls, and how far it got
VARIABLES cstore, stack, status
\* the Cache store of the reactor: its state, the last action dispatched to
\* it, and the number of dispatches so far
VARIABLES cache, action, dispatches
\* the WorkerProxy and its worker: the proxy's handlers, the messages posted
\* to the worker and those posted back, and the promises dispatch returned
VARIABLES handlers, posted, replies, promises
\* the CacheWorker's data bindings: this.bindings, the observers of its
\* reactor, the valueChanged messages the last call posted, and the calls
\* made so far
VARIABLES bindings, observers, valueChanges, calls

entityVars == <<store, op, steps, autoKeys>>
cascadeVars == <<cstore, stack, status>>
cacheVars == <<cache, action, dispatches>>
proxyVars == <<handlers, posted, replies, promises>>
workerVars == <<bindings, observers, valueChanges, calls>>

vars == <<entityVars, cascadeVars, cacheVars, proxyVars, workerVars>>

(***************************************************************************)
(* Bounds of the model.                                                    *)
(***************************************************************************)
\* number of preparatory calls in one history
MaxSteps == 2
\* number of keys current.create may auto-assign in one history
MaxAutoKeys == 2

(***************************************************************************)
(* JavaScript values.                                                      *)
(***************************************************************************)
\* the value `undefined`, as returned by getIn on a path that is not there
undefined == 99
\* `undefined` where a record is expected (a bucket read that finds nothing)
undefinedRecord == [undefined |-> TRUE]

\* truthiness of a primary key: undefined and 0 are falsy
truthyKey(pk) == pk # undefined /\ pk # 0
\* truthiness of a bucket read: an Immutable.Map is truthy, undefined is not
truthy(record) == record # undefinedRecord

\* Immutable.Map#getIn([field]) on a record
getIn(record, field) ==
  IF field \in DOMAIN record THEN record[field] ELSE undefined
\* Immutable.Map#setIn([field], value) on a record
setIn(record, field, value) ==
  [f \in DOMAIN record \cup {field} |-> IF f = field THEN value ELSE record[f]]
\* Immutable.Map#set(key, value) / #delete(key) on one bucket of one type
mapSet(m, key, value) ==
  [k \in DOMAIN m \cup {key} |-> IF k = key THEN value ELSE m[k]]
mapDelete(m, key) == [k \in DOMAIN m \ {key} |-> m[k]]
mapGet(m, key) == IF key \in DOMAIN m THEN m[key] ELSE undefinedRecord
\* Immutable.Map(): a bucket with no entries
EmptyMap == [k \in {} |-> undefinedRecord]

(***************************************************************************)
(* The registry: the typedefs of the test suite and the README.            *)
(***************************************************************************)
typedefs ==
  [AdAccount |->
     [key |-> "id",
      foreignKeys |-> [r \in {} |-> ""],
      inverseForeignKeys |-> [r \in {"AdCampaign"} |-> "account_id"]],
   AdCampaign |->
     [key |-> "id",
      foreignKeys |-> [r \in {"AdAccount"} |-> "account_id"],
      inverseForeignKeys |-> [r \in {"Ad"} |-> "campaign_id"]],
   Ad |->
     [key |-> "id",
      foreignKeys |-> [r \in {"AdCampaign"} |-> "campaign_id"],
      inverseForeignKeys |-> [r \in {} |-> ""]]]

\* entityTypeAccessors: one facade per typedef name
Types == DOMAIN typedefs

\* newStore()
newStore ==
  [initial |-> [T \in Types |-> EmptyMap],
   current |-> [T \in Types |-> EmptyMap],
   deleted |-> [T \in Types |-> EmptyMap],
   nextKey |-> -1]

(***************************************************************************)
(* EntityType                                                              *)
(***************************************************************************)
keyFor(T, record) == getIn(record, typedefs[T].key)

\* foreignKey.get(record, relName) of type T; a relation the typedef does
\* not declare reads the path `undefined`, which finds nothing
foreignKeyGet(T, record, relName) ==
  IF relName \in DOMAIN typedefs[T].foreignKeys
    THEN getIn(record, typedefs[T].foreignKeys[relName])
    ELSE undefined

initialGet(s, T, k) == mapGet(s.initial[T], k)
currentGet(s, T, k) == mapGet(s.current[T], k)
deletedGet(s, T, k) == mapGet(s.deleted[T], k)

initialGetAll(s, T) == s.initial[T]
currentGetAll(s, T) == s.current[T]
deletedGetAll(s, T) == s.deleted[T]

\* (mutant) getAllChanged that lists records pending delete too
getAllChangedWithDeleted(s, T) ==
  LET cur == currentGetAll(s, T)
      passes(record) ==
        LET ini == initialGet(s, T, keyFor(T, record))
        IN  truthy(ini) /\ ini # record
  IN  [k \in {k \in DOMAIN cur : passes(cur[k])} |-> cur[k]]
\* EntityTypeCurrentAccessors.getAllChanged: the filter looks each record up
\* under keyFor(record)
getAllChanged(s, T) ==
  LET cur == currentGetAll(s, T)
      passes(record) ==
        LET pk == keyFor(T, record)
            ini == initialGet(s, T, pk)
        IN  truthy(ini) /\ ~truthy(deletedGet(s, T, pk)) /\ ini # record
  IN  [k \in {k \in DOMAIN cur : passes(cur[k])} |-> cur[k]]

\* (mutant) getAllNew that does not filter
getAllNewUnfiltered(s, T) == currentGetAll(s, T)
\* EntityTypeCurrentAccessors.getAllNew
getAllNew(s, T) ==
  LET cur == currentGetAll(s, T)
  IN  [k \in {k \in DOMAIN cur : ~truthy(initialGet(s, T, keyFor(T, cur[k])))} |-> cur[k]]

\* (mutant) getChangedProperties that drops the fields the accepted value lacks
getChangedPropertiesOfShared(s, T, recordKey) ==
  LET ini == initialGet(s, T, recordKey)
      cur == currentGet(s, T, recordKey)
  IN  IF ~truthy(ini) THEN cur
      ELSE IF ~truthy(cur) THEN [threw |-> "TypeError"]
      ELSE [f \in {f \in DOMAIN cur \cap DOMAIN ini : cur[f] # ini[f]} |-> cur[f]]
\* EntityTypeCurrentAccessors.getChangedProperties: undefined (no record) when
\* neither bucket has the key, a TypeError (undefined.filter) when only
\* initial has it
getChangedProperties(s, T, recordKey) ==
  LET ini == initialGet(s, T, recordKey)
      cur == currentGet(s, T, recordKey)
  IN  IF ~truthy(ini) THEN cur
      ELSE IF ~truthy(cur) THEN [threw |-> "TypeError"]
      ELSE [f \in {f \in DOMAIN cur : cur[f] # getIn(ini, f)} |-> cur[f]]

currentSet(s, T, k, record) ==
  [s EXCEPT !.current[T] = mapSet(@, k, record)]
deletedSet(s, T, k, record) ==
  [s EXCEPT !.deleted[T] = mapSet(@, k, record)]
\* (mutant) deleted.reject that clears the tombstones of the other types too
deletedRejectEveryType(s, T, k) ==
  [s EXCEPT !.deleted = [U \in DOMAIN s.deleted |->
                           IF U = T THEN mapDelete(s.deleted[U], k) ELSE << >>]]
\* (mutant) deleted.reject that removes the current value with the tombstone
deletedRejectDropsCurrent(s, T, k) ==
  [s EXCEPT !.deleted[T] = mapDelete(@, k), !.current[T] = mapDelete(@, k)]
deletedReject(s, T, k) ==
  [s EXCEPT !.deleted[T] = mapDelete(@, k)]

\* (mutant) foreignKey.set that returns the record it was given
foreignKeySetRecordUnchanged(T, relName, record, value) == record
\* foreignKey.set(store, relName, record, value) of type T: the new record
foreignKeySetRecord(T, relName, record, value) ==
  setIn(record, typedefs[T].foreignKeys[relName], value)
\* (mutant) foreignKey.set that stores the record under the foreign key's value
foreignKeySetUnderValue(s, T, relName, record, value) ==
  [s EXCEPT !.current[T] =
     mapSet(@, value, setIn(record, typedefs[T].foreignKeys[relName], value))]
\* (mutant) foreignKey.set that writes the record to initial as well
foreignKeySetWithBaseline(s, T, relName, record, value) ==
  LET rec == setIn(record, typedefs[T].foreignKeys[relName], value)
  IN  [s EXCEPT !.initial[T] = mapSet(@, keyFor(T, rec), rec),
                !.current[T] = mapSet(@, keyFor(T, rec), rec)]
\* (mutant) foreignKey.set that returns the store it was given
foreignKeySetNotStored(s, T, relName, record, value) == s
\* foreignKey.set(store, relName, record, value) of type T: the new store
foreignKeySet(s, T, relName, record, value) ==
  LET rec == foreignKeySetRecord(T, relName, record, value)
  IN  currentSet(s, T, keyFor(T, rec), rec)

\* children(store, relName, record) of type T: the keys, in current[relName],
\* of the records whose foreign key for T is the record's primary key
children(s, T, relName, record) ==
  {k \in DOMAIN s.current[relName] :
     foreignKeyGet(relName, s.current[relName][k], T) = keyFor(T, record)}

\* parents(store, relName, record) of type T
parents(s, T, relName, record) ==
  {k \in DOMAIN s.current[relName] :
     keyFor(relName, s.current[relName][k]) = foreignKeyGet(T, record, relName)}

\* state(store, record) of type T; "UnknownState" stands for the throw
\* (mutant) state that classifies a record with no accepted value as modified
stateWithoutNew(s, T, record) ==
  LET pk == keyFor(T, record)
      ini == initialGet(s, T, pk)
      cur == currentGet(s, T, pk)
  IN  IF truthy(deletedGet(s, T, pk)) THEN "DELETED"
      ELSE IF truthy(cur)
        THEN (IF ini = cur THEN "UNCHANGED" ELSE "MODIFIED")
      ELSE "UnknownState"
\* (mutant) state that looks at deleted after initial and current
stateDeletedLast(s, T, record) ==
  LET pk == keyFor(T, record)
      ini == initialGet(s, T, pk)
      cur == currentGet(s, T, pk)
  IN  IF truthy(ini) /\ truthy(cur)
        THEN (IF truthy(deletedGet(s, T, pk)) THEN "DELETED"
              ELSE IF ini = cur THEN "UNCHANGED" ELSE "MODIFIED")
      ELSE IF truthy(cur) THEN "NEW"
      ELSE "UnknownState"
state(s, T, record) ==
  LET pk == keyFor(T, record)
      ini == initialGet(s, T, pk)
      cur == currentGet(s, T, pk)
  IN  IF truthy(deletedGet(s, T, pk)) THEN "DELETED"
      ELSE IF truthy(ini) /\ truthy(cur)
        THEN (IF ini = cur THEN "UNCHANGED" ELSE "MODIFIED")
      ELSE IF truthy(cur) THEN "NEW"
      ELSE "UnknownState"

(***************************************************************************)
(* A call that throws: children() reads keyFor(undefined).getIn.           *)
(***************************************************************************)
TypeError == [threw |-> "TypeError"]

\* Object.keys(inverseForeignKeys) of type T
inverseRelations(T) == DOMAIN typedefs[T].inverseForeignKeys

(***************************************************************************)
(* EntityTypeCurrentAccessors.delete, with its cascade.  The children of   *)
(* one relation are read once, before the loop over them; the order of the *)
(* loop does not change the store it ends in, since each call writes under *)
(* the key it is given and below it.                                       *)
(***************************************************************************)
RECURSIVE currentDelete(_, _, _)
RECURSIVE currentDeleteEach(_, _, _)
RECURSIVE currentDeleteRelations(_, _, _, _)

currentDeleteEach(s, relT, relPKs) ==
  IF s = TypeError \/ relPKs = {} THEN s
  ELSE LET relPK == CHOOSE k \in relPKs : TRUE
       IN  currentDeleteEach(currentDelete(s, relT, relPK), relT, relPKs \ {relPK})

\* (mutant) a cascade that deletes no child
currentDeleteNoRelations(s, T, cur, relNames) == s
currentDeleteRelations(s, T, cur, relNames) ==
  IF s = TypeError \/ relNames = {} THEN s
  ELSE IF ~truthy(cur) THEN TypeError
  ELSE LET relName == CHOOSE r \in relNames : TRUE
       IN  currentDeleteRelations(
             currentDeleteEach(s, relName, children(s, T, relName, cur)),
             T, cur, relNames \ {relName})

\* (mutant) delete that tombstones a record whether or not it has an accepted value
currentDeleteAlwaysTombstones(s, T, recordKey) ==
  LET cur == currentGet(s, T, recordKey)
      s1 == currentDeleteRelations(s, T, cur, inverseRelations(T))
  IN  IF s1 = TypeError THEN TypeError
      ELSE deletedSet(s1, T, recordKey, cur)
\* (mutant) delete that leaves a record with no accepted value in current
currentDeleteKeepsNew(s, T, recordKey) ==
  LET cur == currentGet(s, T, recordKey)
      s1 == currentDeleteRelations(s, T, cur, inverseRelations(T))
  IN  IF s1 = TypeError THEN TypeError
      ELSE IF ~truthy(initialGet(s1, T, recordKey)) THEN s1
      ELSE deletedSet(s1, T, recordKey, cur)
\* (mutant) delete that tombstones the accepted value instead of the current one
currentDeleteTombstonesInitial(s, T, recordKey) ==
  LET cur == currentGet(s, T, recordKey)
      s1 == currentDeleteRelations(s, T, cur, inverseRelations(T))
  IN  IF s1 = TypeError THEN TypeError
      ELSE IF ~truthy(initialGet(s1, T, recordKey))
        THEN [s1 EXCEPT !.current[T] = mapDelete(@, recordKey)]
      ELSE deletedSet(s1, T, recordKey, initialGet(s1, T, recordKey))
currentDelete(s, T, recordKey) ==
  LET cur == currentGet(s, T, recordKey)
      s1 == currentDeleteRelations(s, T, cur, inverseRelations(T))
  IN  IF s1 = TypeError THEN TypeError
      ELSE IF ~truthy(initialGet(s1, T, recordKey))
        THEN [s1 EXCEPT !.current[T] = mapDelete(@, recordKey)]
      ELSE deletedSet(s1, T, recordKey, cur)

\* EntityTypeCurrentAccessors.reject
\* (mutant) reject that restores the current value and keeps the tombstone
currentRejectKeepsTombstone(s, T, recordKey) ==
  LET ini == initialGet(s, T, recordKey)
  IN  IF truthy(ini)
        THEN currentSet(s, T, recordKey, ini)
        ELSE currentDelete(s, T, recordKey)
\* (mutant) reject that clears the tombstone and keeps the edited value
currentRejectKeepsCurrent(s, T, recordKey) ==
  LET ini == initialGet(s, T, recordKey)
  IN  IF truthy(ini)
        THEN deletedReject(s, T, recordKey)
        ELSE currentDelete(s, T, recordKey)
\* (mutant) reject that removes a record with no accepted value and not its children
currentRejectLocal(s, T, recordKey) ==
  LET ini == initialGet(s, T, recordKey)
  IN  IF truthy(ini)
        THEN currentSet(deletedReject(s, T, recordKey), T, recordKey, ini)
        ELSE [s EXCEPT !.current[T] = mapDelete(@, recordKey)]
currentReject(s, T, recordKey) ==
  LET ini == initialGet(s, T, recordKey)
  IN  IF truthy(ini)
        THEN currentSet(deletedReject(s, T, recordKey), T, recordKey, ini)
        ELSE currentDelete(s, T, recordKey)

\* EntityTypeInitialAccessors.set
\* (mutant) initial.set that does not reject the current value
initialSetOnly(s, T, recordKey, record) ==
  [s EXCEPT !.initial[T] = mapSet(@, recordKey, record)]
\* (mutant) initial.set that sets initial and current and keeps the tombstone
initialSetKeepsTombstone(s, T, recordKey, record) ==
  currentSet([s EXCEPT !.initial[T] = mapSet(@, recordKey, record)], T, recordKey, record)
initialSet(s, T, recordKey, record) ==
  currentReject([s EXCEPT !.initial[T] = mapSet(@, recordKey, record)], T, recordKey)

\* EntityTypeInitialAccessors.load: the records in the order of the batch
\* (mutant) load that stops after the first record of the batch
initialLoadFirst(s, T, records) ==
  IF records = <<>> THEN s
  ELSE initialSet(s, T, keyFor(T, Head(records)), Head(records))
RECURSIVE initialLoad(_, _, _)
initialLoad(s, T, records) ==
  IF records = <<>> THEN s
  ELSE initialLoad(initialSet(s, T, keyFor(T, Head(records)), Head(records)),
                   T, Tail(records))

\* EntityTypeCurrentAccessors.create: the {store, record, pk} it returns
\* (mutant) create that takes two keys from nextKey for one record
currentCreateSkipsKey(s, T, record) ==
  LET pk0 == keyFor(T, record)
      auto == ~truthyKey(pk0)
      pk == IF auto THEN s.nextKey ELSE pk0
      rec == IF auto THEN setIn(record, typedefs[T].key, pk) ELSE record
      s1 == IF auto THEN [s EXCEPT !.nextKey = pk - 2] ELSE s
  IN  [store |-> currentSet(s1, T, pk, rec), record |-> rec, pk |-> pk]
\* (mutant) create that assigns nextKey and does not decrement it
currentCreateSameKey(s, T, record) ==
  LET pk0 == keyFor(T, record)
      auto == ~truthyKey(pk0)
      pk == IF auto THEN s.nextKey ELSE pk0
      rec == IF auto THEN setIn(record, typedefs[T].key, pk) ELSE record
  IN  [store |-> currentSet(s, T, pk, rec), record |-> rec, pk |-> pk]
\* (mutant) create that writes the record to initial as well
currentCreateWithBaseline(s, T, record) ==
  LET pk0 == keyFor(T, record)
      auto == ~truthyKey(pk0)
      pk == IF auto THEN s.nextKey ELSE pk0
      rec == IF auto THEN setIn(record, typedefs[T].key, pk) ELSE record
      s1 == IF auto THEN [s EXCEPT !.nextKey = pk - 1] ELSE s
  IN  [store |-> initialSet(s1, T, pk, rec), record |-> rec, pk |-> pk]
currentCreate(s, T, record) ==
  LET pk0 == keyFor(T, record)
      auto == ~truthyKey(pk0)
      pk == IF auto THEN s.nextKey ELSE pk0
      rec == IF auto THEN setIn(record, typedefs[T].key, pk) ELSE record
      s1 == IF auto THEN [s EXCEPT !.nextKey = pk - 1] ELSE s
  IN  [store |-> currentSet(s1, T, pk, rec), record |-> rec, pk |-> pk]

(***************************************************************************)
(* EntityTypeDeletedAccessors.accept, with its cascade.                    *)
(***************************************************************************)
RECURSIVE deletedAccept(_, _, _)
RECURSIVE deletedAcceptEach(_, _, _)
RECURSIVE deletedAcceptRelations(_, _, _, _)

deletedAcceptEach(s, relT, relPKs) ==
  IF s = TypeError \/ relPKs = {} THEN s
  ELSE LET relPK == CHOOSE k \in relPKs : TRUE
       IN  deletedAcceptEach(deletedAccept(s, relT, relPK), relT, relPKs \ {relPK})

deletedAcceptRelations(s, T, cur, relNames) ==
  IF s = TypeError \/ relNames = {} THEN s
  ELSE IF ~truthy(cur) THEN TypeError
  ELSE LET relName == CHOOSE r \in relNames : TRUE
       IN  deletedAcceptRelations(
             deletedAcceptEach(s, relName, children(s, T, relName, cur)),
             T, cur, relNames \ {relName})

deletedAccept(s, T, recordKey) ==
  LET cur == currentGet(s, T, recordKey)
      s1 == deletedAcceptRelations(s, T, cur, inverseRelations(T))
  IN  IF s1 = TypeError THEN TypeError
      ELSE [s1 EXCEPT !.deleted[T] = mapDelete(@, recordKey),
                      !.current[T] = mapDelete(@, recordKey),
                      !.initial[T] = mapDelete(@, recordKey)]

(***************************************************************************)
(* EntityTypeCurrentAccessors.accept.  The cascade writes each child under *)
(* the child's own key (foreignKey.set), in the iteration order of the     *)
(* current bucket, which is fixed by the map's hashing and is not part of  *)
(* the store's value: every order is a possible outcome.                   *)
(***************************************************************************)
Orders(S) ==
  {q \in [1..Cardinality(S) -> S] : \A i, j \in DOMAIN q : i # j => q[i] # q[j]}

RECURSIVE currentAcceptEach(_, _, _, _, _)
currentAcceptEach(s, T, relT, childRecords, pk) ==
  IF childRecords = <<>> THEN s
  ELSE currentAcceptEach(foreignKeySet(s, relT, T, Head(childRecords), pk),
                         T, relT, Tail(childRecords), pk)

RECURSIVE currentAcceptRelations(_, _, _, _, _)
currentAcceptRelations(ss, T, cur, pk, relNames) ==
  IF relNames = {} THEN ss
  ELSE LET relName == CHOOSE r \in relNames : TRUE
           step(s) ==
             LET kids == children(s, T, relName, cur)
             IN  {currentAcceptEach(s, T, relName,
                                    [i \in DOMAIN q |-> s.current[relName][q[i]]], pk)
                    : q \in Orders(kids)}
       IN  currentAcceptRelations(UNION {step(s) : s \in ss}, T, cur, pk,
                                  relNames \ {relName})

\* the set of stores current.accept may return; {TypeError} when it throws
currentAccept(s, T, recordKey, record) ==
  LET cur == currentGet(s, T, recordKey)
      pk == keyFor(T, record)
  IN  IF recordKey # pk
        THEN IF inverseRelations(T) # {} /\ ~truthy(cur) THEN {TypeError}
             ELSE {initialSet([s1 EXCEPT !.current[T] = mapDelete(@, recordKey)],
                              T, pk, record)
                     : s1 \in currentAcceptRelations({s}, T, cur, pk, inverseRelations(T))}
        ELSE {initialSet(s, T, pk, record)}

(***************************************************************************)
(* The calls an application makes.  A history is a bounded number of       *)
(* preparatory calls, whose arguments come from a narrow set (records      *)
(* stored under their own keys), followed by one call whose arguments come *)
(* from the wide set; `op` records that last call and the store it was     *)
(* made on.                                                                *)
(***************************************************************************)
\* the keys current.create auto-assigns, and every primary key in play:
\* those, 0 (falsy) and the keys a server issues
AutoKeys == (0 - MaxAutoKeys)..(-1)
ServerKeys == {1}
Keys == AutoKeys \cup {0} \cup ServerKeys
\* the keys of the preparatory calls: a local key and a server key
NarrowKeys == {-1} \cup ServerKeys

\* the fields of a record of type T: its key, its foreign keys, and a
\* payload field on the type that has no foreign key
FieldsOf(T) ==
  {typedefs[T].key}
    \cup {typedefs[T].foreignKeys[r] : r \in DOMAIN typedefs[T].foreignKeys}
    \cup (IF DOMAIN typedefs[T].foreignKeys = {} THEN {"name"} ELSE {})

ValuesOf(T, field, wide) ==
  IF field = "name" THEN {1}
  ELSE IF wide /\ field = typedefs[T].key THEN NarrowKeys \cup {0}
  ELSE NarrowKeys

\* the records of type T: wide, any subset of the fields; narrow, the key
\* (unless keyless) and every foreign key, with or without the payload
Records(T, wide, keyless) ==
  LET fieldSets ==
        IF wide THEN SUBSET FieldsOf(T)
        ELSE {F \in SUBSET FieldsOf(T) :
                /\ (typedefs[T].key \in F) = ~keyless
                /\ \A r \in DOMAIN typedefs[T].foreignKeys : typedefs[T].foreignKeys[r] \in F}
  IN  UNION {{r \in [F -> Keys] : \A f \in F : r[f] \in ValuesOf(T, f, wide)}
               : F \in fieldSets}


\* the relation tree below (T, k) as children() sees it in current
RECURSIVE subtree(_, _, _)
subtree(s, T, k) ==
  {<<T, k>>} \cup
  (IF k \in DOMAIN s.current[T]
     THEN UNION {UNION {subtree(s, relName, c) :
                          c \in children(s, T, relName, s.current[T][k])}
                   : relName \in inverseRelations(T)}
     ELSE {})

\* the models of the cache's test suite: a User belongs to an Org
Models == {"Org", "User"}

\* getInitialState() of the Cache store; Cache's constructor registers the
\* models at once.  _inverseForeignKeyIndex is left out: the handlers write
\* it and nothing ever reads it back into a decision or a value
getInitialState ==
  [initialValues |-> [T \in Models |-> EmptyMap],
   currentValues |-> [T \in Models |-> EmptyMap],
   deleted |-> [T \in Models |-> {}],
   nextKey |-> -1]

\* no action has been dispatched yet
NoAction ==
  [name |-> "", model |-> "", key |-> undefined, value |-> undefinedRecord,
   threw |-> FALSE, before |-> getInitialState]

\* the action names of the messages between the window and the worker:
\* two methods of CacheWorker, the message of an observer, and a name the
\* worker has no method for
ActionNames == {"echo", "dispatch", "valueChanged", "bogus"}

\* newStore, with the buckets of a registry whose one type is Node
newCascadeStore ==
  [initial |-> [Node |-> EmptyMap], current |-> [Node |-> EmptyMap],
   deleted |-> [Node |-> EmptyMap]]

\* the state of the record under key k, as state() classifies a record with that key
stateOfKey(s, T, k) == state(s, T, [id |-> k])

NoCall ==
  [name |-> "newStore", type |-> "", key |-> undefined, record |-> undefinedRecord,
   pk |-> undefined, threw |-> FALSE, before |-> newStore]

\* a call returns a store, or throws and leaves the caller's store
Return(s, wide, name, T, key, record, pk) ==
  /\ store' = IF s = TypeError THEN store ELSE s
  /\ UNCHANGED <<cascadeVars, cacheVars, proxyVars, workerVars>>
  /\ autoKeys' = IF name = "current.create" /\ ~truthyKey(keyFor(T, record))
                   THEN Append(autoKeys, <<T, pk>>)
                   ELSE autoKeys
  /\ IF wide
       THEN /\ op' = [name |-> name, type |-> T, key |-> key, record |-> record,
                      pk |-> pk, threw |-> (s = TypeError), before |-> store]
            /\ steps' = steps
       ELSE /\ op' = NoCall
            /\ steps' = steps + 1

\* calls are made until the last call is
CanCall(wide) == op = NoCall

Init ==
  /\ store = newStore
  /\ op = NoCall
  /\ steps = 0
  /\ autoKeys = <<>>
  /\ cstore = newCascadeStore
  /\ stack = <<>>
  /\ status = "idle"
  /\ cache = getInitialState
  /\ action = NoAction
  /\ dispatches = 0
  /\ handlers = [a \in ActionNames |-> <<>>]
  /\ posted = <<>>
  /\ replies = <<>>
  /\ promises = <<>>
  /\ bindings = <<>>
  /\ observers = {}
  /\ valueChanges = {}
  /\ calls = <<>>

InitialSet(T, k, record, wide) ==
  /\ CanCall(wide)
  /\ Return(initialSet(store, T, k, record), wide, "initial.set", T, k, record,
            keyFor(T, record))

InitialLoad(T, records, wide) ==
  /\ CanCall(wide)
  /\ Return(initialLoad(store, T, records), wide, "initial.load", T,
            keyFor(T, records[1]), [batch |-> records], keyFor(T, records[1]))

CurrentSet(T, k, record, wide) ==
  /\ CanCall(wide)
  /\ Return(currentSet(store, T, k, record), wide, "current.set", T, k, record,
            keyFor(T, record))

CurrentCreate(T, record, wide) ==
  /\ CanCall(wide)
  /\ ~truthyKey(keyFor(T, record)) => store.nextKey >= 0 - MaxAutoKeys
  /\ LET r == currentCreate(store, T, record)
     IN  Return(r.store, wide, "current.create", T, r.pk, record, r.pk)

CurrentAccept(T, k, record, wide) ==
  /\ CanCall(wide)
  /\ \E s \in currentAccept(store, T, k, record) :
       Return(s, wide, "current.accept", T, k, record, keyFor(T, record))

CurrentReject(T, k, wide) ==
  /\ CanCall(wide)
  /\ Return(currentReject(store, T, k), wide, "current.reject", T, k, undefinedRecord, k)

CurrentDelete(T, k, wide) ==
  /\ CanCall(wide)
  /\ Return(currentDelete(store, T, k), wide, "current.delete", T, k, undefinedRecord, k)

DeletedSet(T, k, record, wide) ==
  /\ CanCall(wide)
  /\ Return(deletedSet(store, T, k, record), wide, "deleted.set", T, k, record,
            keyFor(T, record))

DeletedAccept(T, k, wide) ==
  /\ CanCall(wide)
  /\ Return(deletedAccept(store, T, k), wide, "deleted.accept", T, k, undefinedRecord, k)

DeletedReject(T, k, wide) ==
  /\ CanCall(wide)
  /\ Return(deletedReject(store, T, k), wide, "deleted.reject", T, k, undefinedRecord, k)

\* the call is recorded with all its arguments
ForeignKeySet(T, relName, record, value, wide) ==
  /\ CanCall(wide)
  /\ Return(foreignKeySet(store, T, relName, record, value), wide, "foreignKey.set", T,
            keyFor(T, record), [record |-> record, relName |-> relName, value |-> value],
            keyFor(T, record))

\* the arguments of a call: is it the last call, or one of at most n preparatory ones
Prepare(wide, n) == wide \/ steps < n

\* a narrow record whose foreign keys all name a server key
Plain(T, record) ==
  /\ "name" \notin DOMAIN record
  /\ \A r \in DOMAIN typedefs[T].foreignKeys :
       getIn(record, typedefs[T].foreignKeys[r]) \in ServerKeys

Next ==
  \/ /\ CanCall(TRUE)
     /\ \E T \in Types, k \in NarrowKeys : \E record \in Records(T, FALSE, FALSE) :
          InitialSet(T, k, record, TRUE)
  \/ \E wide \in BOOLEAN :
       /\ CanCall(wide) /\ Prepare(wide, MaxSteps)
       /\ \E T \in Types : \E record \in Records(T, wide, FALSE) :
            /\ wide \/ keyFor(T, record) \in ServerKeys
            /\ InitialLoad(T, <<record>>, wide)
  \/ \E wide \in BOOLEAN :
       /\ CanCall(wide) /\ Prepare(wide, MaxSteps)
       /\ \E T \in Types, k \in NarrowKeys : \E record \in Records(T, FALSE, FALSE) :
            CurrentSet(T, k, record, wide)
  \/ \E wide \in BOOLEAN :
       /\ CanCall(wide) /\ Prepare(wide, MaxSteps)
       /\ \E T \in Types : \E record \in Records(T, wide, TRUE) :
            /\ wide \/ Plain(T, record)
            /\ CurrentCreate(T, record, wide)
  \/ /\ CanCall(TRUE)
     /\ \E T \in Types, k \in NarrowKeys : \E record \in Records(T, TRUE, FALSE) :
          CurrentAccept(T, k, record, TRUE)
  \/ /\ CanCall(TRUE)
     /\ \E T \in Types, k \in Keys : CurrentReject(T, k, TRUE)
  \/ \E wide \in BOOLEAN :
       /\ CanCall(wide) /\ Prepare(wide, MaxSteps)
       /\ \E T \in Types : \E k \in (IF wide THEN Keys ELSE NarrowKeys) :
            CurrentDelete(T, k, wide)
  \/ \E wide \in BOOLEAN :
       /\ CanCall(wide) /\ Prepare(wide, MaxSteps)
       /\ \E T \in Types, k \in NarrowKeys : \E record \in Records(T, FALSE, FALSE) :
            /\ wide \/ (Plain(T, record) /\ keyFor(T, record) = k)
            /\ DeletedSet(T, k, record, wide)
  \/ /\ CanCall(TRUE)
     /\ \E T \in Types, k \in Keys : DeletedAccept(T, k, TRUE)
  \/ /\ CanCall(TRUE)
     /\ \E T \in Types, k \in Keys : DeletedReject(T, k, TRUE)
  \/ /\ CanCall(TRUE)
     /\ \E T \in Types : \E relName \in DOMAIN typedefs[T].foreignKeys :
          \E record \in Records(T, FALSE, FALSE), value \in NarrowKeys :
            ForeignKeySet(T, relName, record, value, TRUE)

Spec == Init /\ [][Next]_vars

(***************************************************************************)
(* Histories that build a relation tree: up to MaxTreeSteps preparatory    *)
(* calls that keep every record under its own key, followed by one         *)
(* current.delete or deleted.accept on any key.                            *)
(***************************************************************************)
MaxTreeSteps == 3

NextTree ==
  \/ /\ CanCall(FALSE) /\ Prepare(FALSE, MaxTreeSteps)
     /\ \E T \in Types : \E record \in Records(T, FALSE, FALSE) :
          /\ keyFor(T, record) \in ServerKeys
          /\ InitialLoad(T, <<record>>, FALSE)
  \/ /\ CanCall(FALSE) /\ Prepare(FALSE, MaxTreeSteps)
     /\ \E T \in Types : \E record \in Records(T, FALSE, TRUE) :
          /\ Plain(T, record)
          /\ CurrentCreate(T, record, FALSE)
  \/ /\ CanCall(FALSE) /\ Prepare(FALSE, MaxTreeSteps)
     /\ \E T \in Types, k \in NarrowKeys : \E record \in Records(T, FALSE, FALSE) :
          /\ keyFor(T, record) = k
          /\ CurrentSet(T, k, record, FALSE)
  \/ \E wide \in BOOLEAN :
       /\ CanCall(wide) /\ Prepare(wide, MaxTreeSteps)
       /\ \E T \in Types : \E k \in (IF wide THEN Keys ELSE NarrowKeys) :
            CurrentDelete(T, k, wide)
  \/ /\ CanCall(TRUE)
     /\ \E T \in Types, k \in Keys : DeletedAccept(T, k, TRUE)

SpecTree == Init /\ [][NextTree]_vars

(***************************************************************************)
(* Histories that end in a load: up to MaxSteps preparatory calls, then    *)
(* one initial.load of a batch of up to MaxBatch records, whose keys may   *)
(* repeat, or one initial.set.                                             *)
(***************************************************************************)
MaxBatch == 2

\* the batches of records of type T that initial.load is given
Batches(T) ==
  UNION {[1..n -> Records(T, FALSE, FALSE)] : n \in 1..MaxBatch}

NextLoad ==
  \/ /\ CanCall(FALSE) /\ Prepare(FALSE, MaxSteps)
     /\ \E T \in Types : \E record \in Records(T, FALSE, FALSE) :
          /\ keyFor(T, record) \in ServerKeys
          /\ InitialLoad(T, <<record>>, FALSE)
  \/ /\ CanCall(FALSE) /\ Prepare(FALSE, MaxSteps)
     /\ \E T \in Types, k \in NarrowKeys : \E record \in Records(T, FALSE, FALSE) :
          CurrentSet(T, k, record, FALSE)
  \/ /\ CanCall(FALSE) /\ Prepare(FALSE, MaxSteps)
     /\ \E T \in Types : \E record \in Records(T, FALSE, TRUE) :
          /\ Plain(T, record)
          /\ CurrentCreate(T, record, FALSE)
  \/ /\ CanCall(FALSE) /\ Prepare(FALSE, MaxSteps)
     /\ \E T \in Types, k \in NarrowKeys : CurrentDelete(T, k, FALSE)
  \/ /\ CanCall(TRUE)
     /\ \E T \in Types : \E records \in Batches(T) : InitialLoad(T, records, TRUE)
  \/ /\ CanCall(TRUE)
     /\ \E T \in Types, k \in NarrowKeys : \E record \in Records(T, FALSE, FALSE) :
          InitialSet(T, k, record, TRUE)

SpecLoad == Init /\ [][NextLoad]_vars

(***************************************************************************)
(* The getters and state() read a store and change nothing: for them the   *)
(* stores matter, not the call that made them.  Every accessor is called,  *)
(* none is recorded.                                                       *)
(***************************************************************************)
MaxQuerySteps == 3

CanPrepare == CanCall(FALSE) /\ Prepare(FALSE, MaxQuerySteps)

NextQuery ==
  \/ /\ CanPrepare
     /\ \E T \in Types, k \in NarrowKeys : \E record \in Records(T, FALSE, FALSE) :
          InitialSet(T, k, record, FALSE)
  \/ /\ CanPrepare
     /\ \E T \in Types : \E record \in Records(T, FALSE, FALSE) :
          /\ keyFor(T, record) \in ServerKeys
          /\ InitialLoad(T, <<record>>, FALSE)
  \/ /\ CanPrepare
     /\ \E T \in Types, k \in NarrowKeys : \E record \in Records(T, FALSE, FALSE) :
          CurrentSet(T, k, record, FALSE)
  \/ /\ CanPrepare
     /\ \E T \in Types : \E record \in Records(T, FALSE, TRUE) :
          /\ Plain(T, record)
          /\ CurrentCreate(T, record, FALSE)
  \/ /\ CanPrepare
     /\ \E T \in Types, k \in NarrowKeys : \E record \in Records(T, FALSE, FALSE) :
          CurrentAccept(T, k, record, FALSE)
  \/ /\ CanPrepare
     /\ \E T \in Types, k \in NarrowKeys : CurrentReject(T, k, FALSE)
  \/ /\ CanPrepare
     /\ \E T \in Types, k \in NarrowKeys : CurrentDelete(T, k, FALSE)
  \/ /\ CanPrepare
     /\ \E T \in Types, k \in NarrowKeys : \E record \in Records(T, FALSE, FALSE) :
          /\ Plain(T, record) /\ keyFor(T, record) = k
          /\ DeletedSet(T, k, record, FALSE)
  \/ /\ CanPrepare
     /\ \E T \in Types, k \in NarrowKeys : DeletedAccept(T, k, FALSE)
  \/ /\ CanPrepare
     /\ \E T \in Types, k \in NarrowKeys : DeletedReject(T, k, FALSE)
  \/ /\ CanPrepare
     /\ \E T \in Types : \E relName \in DOMAIN typedefs[T].foreignKeys :
          \E record \in Records(T, FALSE, FALSE), value \in NarrowKeys :
            ForeignKeySet(T, relName, record, value, FALSE)

SpecQuery == Init /\ [][NextQuery]_vars

(***************************************************************************)
(* Histories without the direct set operations: initial.load,              *)
(* current.create, current.accept, current.reject, current.delete,         *)
(* deleted.accept, deleted.reject and foreignKey.set, none recorded.       *)
(***************************************************************************)
MaxKeyedSteps == 4

CanPrepareKeyed == CanCall(FALSE) /\ Prepare(FALSE, MaxKeyedSteps)

NextKeyed ==
  \/ /\ CanPrepareKeyed
     /\ \E T \in Types : \E record \in Records(T, FALSE, FALSE) :
          /\ keyFor(T, record) \in ServerKeys
          /\ InitialLoad(T, <<record>>, FALSE)
  \/ /\ CanPrepareKeyed
     /\ \E T \in Types : \E record \in Records(T, FALSE, TRUE) \cup Records(T, FALSE, FALSE) :
          /\ Plain(T, record)
          /\ CurrentCreate(T, record, FALSE)
  \/ /\ CanPrepareKeyed
     /\ \E T \in Types, k \in NarrowKeys : \E record \in Records(T, FALSE, FALSE) :
          CurrentAccept(T, k, record, FALSE)
  \/ /\ CanPrepareKeyed
     /\ \E T \in Types, k \in NarrowKeys : CurrentReject(T, k, FALSE)
  \/ /\ CanPrepareKeyed
     /\ \E T \in Types, k \in NarrowKeys : CurrentDelete(T, k, FALSE)
  \/ /\ CanPrepareKeyed
     /\ \E T \in Types, k \in NarrowKeys : DeletedAccept(T, k, FALSE)
  \/ /\ CanPrepareKeyed
     /\ \E T \in Types, k \in NarrowKeys : DeletedReject(T, k, FALSE)
  \/ /\ CanPrepareKeyed
     /\ \E T \in Types : \E relName \in DOMAIN typedefs[T].foreignKeys :
          \E record \in Records(T, FALSE, FALSE), value \in NarrowKeys :
            ForeignKeySet(T, relName, record, value, FALSE)

SpecKeyed == Init /\ [][NextKeyed]_vars

(***************************************************************************)
(* The cascade of current.delete and deleted.accept, one call at a time,   *)
(* under a registry whose one type is its own parent: a frame is one call  *)
(* (its function, type and key, the store it was called on, the record     *)
(* `cur` it read, the relations it has still to visit and the children of  *)
(* the relation it is visiting that it has still to recurse into).         *)
(***************************************************************************)
MaxNodes == 2

cyclicTypedefs ==
  [Node |->
     [key |-> "id",
      foreignKeys |-> [r \in {"Node"} |-> "parent_id"],
      inverseForeignKeys |-> [r \in {"Node"} |-> "parent_id"]]]

NodeKeys == 1..MaxNodes
NodeRecords == {[id |-> k, parent_id |-> p] : k \in NodeKeys, p \in NodeKeys}

\* children(store, relName, record) of type T under the cyclic registry
cascadeChildren(s, T, relName, record) ==
  {k \in DOMAIN s.current[relName] :
     getIn(s.current[relName][k], cyclicTypedefs[relName].foreignKeys[T])
       = getIn(record, cyclicTypedefs[T].key)}

\* the call fn(store, recordKey) of type T, as it starts
Frame(fn, T, recordKey) ==
  [fn |-> fn, type |-> T, key |-> recordKey, entry |-> cstore,
   cur |-> currentGet(cstore, T, recordKey),
   rels |-> DOMAIN cyclicTypedefs[T].inverseForeignKeys,
   visiting |-> "", kids |-> {}]

top == stack[Len(stack)]

\* a call is nested in a call of the same function with the same key on
\* the same store: the cascade repeats itself without end
Reentered ==
  \E i, j \in DOMAIN stack :
    /\ i < j
    /\ stack[i].fn = stack[j].fn
    /\ stack[i].type = stack[j].type
    /\ stack[i].key = stack[j].key
    /\ stack[i].entry = stack[j].entry

\* before the cascade: records are loaded and set under their own keys
NodeLoad(record) ==
  /\ status = "idle"
  /\ cstore' = initialSet(cstore, "Node", record.id, record)
  /\ UNCHANGED <<stack, status, entityVars, cacheVars, proxyVars, workerVars>>

NodeSet(record) ==
  /\ status = "idle"
  /\ cstore' = currentSet(cstore, "Node", record.id, record)
  /\ UNCHANGED <<stack, status, entityVars, cacheVars, proxyVars, workerVars>>

\* the application calls current.delete or deleted.accept
CascadeCall(fn, recordKey) ==
  /\ status = "idle"
  /\ stack' = <<Frame(fn, "Node", recordKey)>>
  /\ status' = "running"
  /\ UNCHANGED <<cstore, entityVars, cacheVars, proxyVars, workerVars>>

\* the loop over the inverse foreign keys takes the next relation and reads
\* its children; with no record under the key, children() throws
CascadeEnterRelation ==
  /\ status = "running" /\ top.kids = {} /\ top.rels # {}
  /\ \E relName \in top.rels :
       IF ~truthy(top.cur)
         THEN /\ status' = "threw"
              /\ stack' = <<>>
         ELSE /\ status' = status
              /\ stack' = [stack EXCEPT ![Len(stack)] =
                             [@ EXCEPT !.rels = @ \ {relName},
                                       !.visiting = relName,
                                       !.kids = cascadeChildren(cstore, top.type, relName,
                                                                top.cur)]]
  /\ UNCHANGED <<cstore, entityVars, cacheVars, proxyVars, workerVars>>

\* the loop over the children calls the same function on the next child
CascadeRecurse ==
  /\ status = "running" /\ top.kids # {} /\ ~Reentered
  /\ \E relPK \in top.kids :
       stack' = Append([stack EXCEPT ![Len(stack)] = [@ EXCEPT !.kids = @ \ {relPK}]],
                       Frame(top.fn, top.visiting, relPK))
  /\ UNCHANGED <<cstore, status, entityVars, cacheVars, proxyVars, workerVars>>

\* after its loops a call writes the store and returns
CascadeFinish ==
  /\ status = "running" /\ top.kids = {} /\ top.rels = {}
  /\ cstore' =
       IF top.fn = "current.delete"
         THEN IF ~truthy(initialGet(cstore, top.type, top.key))
                THEN [cstore EXCEPT !.current[top.type] = mapDelete(@, top.key)]
                ELSE deletedSet(cstore, top.type, top.key, top.cur)
         ELSE [cstore EXCEPT !.deleted[top.type] = mapDelete(@, top.key),
                             !.current[top.type] = mapDelete(@, top.key),
                             !.initial[top.type] = mapDelete(@, top.key)]
  /\ stack' = SubSeq(stack, 1, Len(stack) - 1)
  /\ status' = IF Len(stack) = 1 THEN "done" ELSE status
  /\ UNCHANGED <<entityVars, cacheVars, proxyVars, workerVars>>

NextCascade ==
  \/ \E record \in NodeRecords : NodeLoad(record)
  \/ \E record \in NodeRecords : NodeSet(record)
  \/ \E fn \in {"current.delete", "deleted.accept"}, k \in NodeKeys : CascadeCall(fn, k)
  \/ CascadeEnterRelation
  \/ CascadeRecurse
  \/ CascadeFinish

SpecCascade == Init /\ [][NextCascade]_vars

(***************************************************************************)
(* The Cache store: a nuclear-js store whose handlers take the state and   *)
(* an action's payload and return the next state.  A handler that throws   *)
(* leaves the reactor's state as it was.                                   *)
(***************************************************************************)
MaxDispatches == 2
MaxCacheKeys == 2

\* Model.serialize() of the two models
models ==
  [Org |-> [KEYPATH |-> "id",
            FOREIGN_KEYS |-> [r \in {} |-> ""],
            INVERSE_FOREIGN_KEYS |-> [r \in {"User"} |-> "org_id"]],
   User |-> [KEYPATH |-> "id",
             FOREIGN_KEYS |-> [r \in {"Org"} |-> "org_id"],
             INVERSE_FOREIGN_KEYS |-> [r \in {} |-> ""]]]

\* the value null of an action's payload
null == [null |-> TRUE]

\* throw new Error(...)
CacheError == [threw |-> "Error"]

_primaryKey(st, modelName) == models[modelName].KEYPATH

_deletedKeys(st, modelName) == st.deleted[modelName]

\* the primary keys, as the records carry them, of the current records of
\* relType whose foreign key is `key`
_relativeKeys(st, modelName, key, relType) ==
  {getIn(st.currentValues[relType][k], _primaryKey(st, relType)) :
     k \in {j \in DOMAIN st.currentValues[relType] :
              getIn(st.currentValues[relType][j],
                    models[modelName].INVERSE_FOREIGN_KEYS[relType]) = key}}

_removeRecord(st, modelName, key) ==
  [st EXCEPT !.initialValues[modelName] = mapDelete(@, key),
                !.currentValues[modelName] = mapDelete(@, key)]

\* (mutant) loadRecords that stops at a record without a key and returns
\* what it has loaded
RECURSIVE loadRecordsPartial(_, _, _)
loadRecordsPartial(st, modelName, records) ==
  IF modelName \notin DOMAIN models \/ records = <<>> THEN st
  ELSE LET r == Head(records)
           key == getIn(r, models[modelName].KEYPATH)
       IN IF ~truthyKey(key) THEN st
          ELSE loadRecordsPartial(
                 [st EXCEPT !.initialValues[modelName] = mapSet(@, key, r),
                               !.currentValues[modelName] = mapSet(@, key, r)],
                 modelName, Tail(records))
\* loadRecords(state, {model, records}): a model that is not registered
\* throws, and so does a record without a key, out of withMutations, whose
\* writes to its mutable copy are lost with it
RECURSIVE loadRecords(_, _, _)
loadRecords(st, modelName, records) ==
  IF modelName \notin DOMAIN models THEN CacheError
  ELSE IF records = <<>> THEN st
  ELSE LET r == Head(records)
           key == getIn(r, models[modelName].KEYPATH)
       IN IF ~truthyKey(key) THEN CacheError
          ELSE loadRecords(
                 [st EXCEPT !.initialValues[modelName] = mapSet(@, key, r),
                               !.currentValues[modelName] = mapSet(@, key, r)],
                 modelName, Tail(records))

\* createRecord(state, {model, value}): a model that is not registered throws
createRecord(st, modelName, value) ==
  IF modelName \notin DOMAIN models THEN CacheError
  ELSE LET key == st.nextKey
           r == setIn(value, models[modelName].KEYPATH, key)
       IN [st EXCEPT !.nextKey = key - 1,
                        !.currentValues[modelName] = mapSet(@, key, r)]

\* acceptChanges with value null: the record is removed, and so is every
\* dependent; under this registry the removals of two dependents do not
\* touch each other, so the order of the two forEach loops does not matter
RECURSIVE acceptNull(_, _, _)
RECURSIVE acceptNullEach(_, _, _)
RECURSIVE acceptNullRelations(_, _, _, _)
acceptNullEach(st, relType, relIDs) ==
  IF relIDs = {} THEN st
  ELSE LET relID == CHOOSE k \in relIDs : TRUE
       IN acceptNullEach(acceptNull(st, relType, relID), relType, relIDs \ {relID})

acceptNullRelations(st, modelName, key, relTypes) ==
  IF relTypes = {} THEN st
  ELSE LET relType == CHOOSE r \in relTypes : TRUE
       IN acceptNullRelations(
            acceptNullEach(st, relType, _relativeKeys(st, modelName, key, relType)),
            modelName, key, relTypes \ {relType})

acceptNull(st, modelName, key) ==
  acceptNullRelations(_removeRecord(st, modelName, key), modelName, key,
                      DOMAIN models[modelName].INVERSE_FOREIGN_KEYS)

\* the callback of acceptChanges with a value, over one relation: each
\* dependent found is read under the key it carries and written back with
\* its foreign key set to newKey; reading nothing there throws
rekeyRelation(st, modelName, key, relType, newKey) ==
  LET relIDs == _relativeKeys(st, modelName, key, relType)
      relIDPath == models[modelName].INVERSE_FOREIGN_KEYS[relType]
  IN IF \E relID \in relIDs : relID \notin DOMAIN st.currentValues[relType]
       THEN TypeError
       ELSE [st EXCEPT !.currentValues[relType] =
               [k \in DOMAIN @ |-> IF k \in relIDs THEN setIn(@[k], relIDPath, newKey)
                                   ELSE @[k]]]

RECURSIVE rekeyRelations(_, _, _, _, _)
rekeyRelations(st, modelName, key, relTypes, newKey) ==
  IF relTypes = {} \/ st = TypeError THEN st
  ELSE LET relType == CHOOSE r \in relTypes : TRUE
       IN rekeyRelations(rekeyRelation(st, modelName, key, relType, newKey),
                         modelName, key, relTypes \ {relType}, newKey)

\* (mutant) acceptChanges that leaves the dependents' foreign keys alone
acceptChangesWithoutCascade(st, modelName, key, value) ==
  IF value = null THEN acceptNull(st, modelName, key)
  ELSE loadRecords(_removeRecord(st, modelName, key), modelName, <<value>>)

\* acceptChanges(state, {model, key, value})
acceptChanges(st, modelName, key, value) ==
  IF value = null THEN acceptNull(st, modelName, key)
  ELSE LET newKey == getIn(value, _primaryKey(st, modelName))
           rekeyed == rekeyRelations(_removeRecord(st, modelName, key), modelName, key,
                                     DOMAIN models[modelName].INVERSE_FOREIGN_KEYS, newKey)
       IN IF rekeyed = TypeError THEN TypeError
          ELSE loadRecords(rekeyed, modelName, <<value>>)

\* setDeleted(state, {model, key})
setDeleted(st, modelName, key) ==
  [st EXCEPT !.deleted[modelName] = _deletedKeys(st, modelName) \cup {key}]

\* updateRecord(state, {model, key, value})
updateRecord(st, modelName, key, value) ==
  [st EXCEPT !.currentValues[modelName] = mapSet(@, key, value)]

\* rejectChanges(state, {model, key})
rejectChanges(st, modelName, key) ==
  LET iv == mapGet(st.initialValues[modelName], key)
  IN IF ~truthy(iv) THEN acceptChanges(st, modelName, key, null)
     ELSE [st EXCEPT !.currentValues[modelName] = mapSet(@, key, iv),
                        !.deleted[modelName] = _deletedKeys(st, modelName) \ {key}]

(***************************************************************************)
(* Model: the getters over the Cache store.  A getter's list is modelled   *)
(* by the set of its elements.                                             *)
(***************************************************************************)
\* Model.changedRecords: the current values of the keys of initialValues
\* that are not marked deleted and whose two values differ
changedRecords(st, modelName) ==
  {mapGet(st.currentValues[modelName], key) :
     key \in {k \in DOMAIN st.initialValues[modelName] :
                /\ k \notin st.deleted[modelName]
                /\ st.initialValues[modelName][k]
                     # mapGet(st.currentValues[modelName], k)}}

\* the callback of Model.changeSet on one changed record: its initial value
\* is looked up under the key the record carries
changeSetOf(st, modelName, record) ==
  LET iv == mapGet(st.initialValues[modelName],
                   getIn(record, models[modelName].KEYPATH))
  IN IF ~truthy(iv) THEN record
     ELSE [f \in {g \in DOMAIN record : getIn(iv, g) # record[g]} |-> record[f]]

\* Model.changeSet
changeSet(st, modelName) ==
  {changeSetOf(st, modelName, record) : record \in changedRecords(st, modelName)}

\* Model.newRecords
newRecords(st, modelName) ==
  {st.currentValues[modelName][k] :
     k \in {j \in DOMAIN st.currentValues[modelName] :
              ~truthy(mapGet(st.initialValues[modelName],
                             getIn(st.currentValues[modelName][j],
                                   models[modelName].KEYPATH)))}}

\* Model.deletedRecords
deletedRecords(st, modelName) ==
  {mapGet(st.currentValues[modelName], key) : key \in st.deleted[modelName]}

(***************************************************************************)
(* Dispatches to the Cache store.                                          *)
(***************************************************************************)
CacheAutoKeys == (0 - MaxCacheKeys)..(-1)
CacheServerKeys == {1, 2}
CacheKeys == CacheAutoKeys \cup CacheServerKeys
Names == {"a", "b"}

\* the values of a payload: a record of the model, with its key (`keyed`)
\* or as CREATE_RECORD takes it, without
CacheRecords(modelName, ids) ==
  IF modelName = "Org"
    THEN {[id |-> k, name |-> n] : k \in ids, n \in Names}
    ELSE {[id |-> k, name |-> n, org_id |-> o] :
            k \in ids, n \in Names, o \in {-1, 1}}

CacheValues(modelName) ==
  IF modelName = "Org"
    THEN {[name |-> n] : n \in Names}
    ELSE {[name |-> n, org_id |-> o] : n \in Names, o \in {-1, 1}}

\* Flux.dispatch(actionType, payload): the handler's state replaces the
\* store's state unless the handler threw.  A history is up to
\* MaxDispatches earlier dispatches and then the one dispatch that is looked
\* at (`last`), which is recorded with the state it found
CanDispatch(last) == action = NoAction /\ (last \/ dispatches < MaxDispatches)

Dispatch(name, modelName, key, value, result, last) ==
  /\ dispatches' = dispatches + 1
  /\ cache' = IF result \in {CacheError, TypeError} THEN cache ELSE result
  /\ action' = IF last
                 THEN [name |-> name, model |-> modelName, key |-> key, value |-> value,
                       threw |-> result \in {CacheError, TypeError}, before |-> cache]
                 ELSE NoAction
  /\ UNCHANGED <<entityVars, cascadeVars, proxyVars, workerVars>>

\* the payload's records are recorded as [batch |-> records]
LOAD_RECORDS(modelName, records, last) ==
  Dispatch("LOAD_RECORDS", modelName, undefined, [batch |-> records],
           loadRecords(cache, modelName, records), last)

CREATE_RECORD(modelName, value, last) ==
  /\ cache.nextKey \in CacheAutoKeys
  /\ Dispatch("CREATE_RECORD", modelName, cache.nextKey, value,
              createRecord(cache, modelName, value), last)

ACCEPT_CHANGES(modelName, key, value, last) ==
  Dispatch("ACCEPT_CHANGES", modelName, key, value,
           acceptChanges(cache, modelName, key, value), last)

SET_DELETED(modelName, key, last) ==
  Dispatch("SET_DELETED", modelName, key, undefinedRecord,
           setDeleted(cache, modelName, key), last)

UPDATE_RECORD(modelName, key, value, last) ==
  Dispatch("UPDATE_RECORD", modelName, key, value,
           updateRecord(cache, modelName, key, value), last)

REJECT_CHANGES(modelName, key, last) ==
  Dispatch("REJECT_CHANGES", modelName, key, undefinedRecord,
           rejectChanges(cache, modelName, key), last)

\* the values of the earlier dispatches: records are loaded and created
\* with the name "a" and updated to the name "b"; a User is loaded into
\* Org 1 and created in the new Org -1
EarlyKeys == {-1, 1}

EarlyRecord(modelName, record, name) ==
  /\ record.name = name
  /\ modelName = "User" => record.org_id = (IF "id" \in DOMAIN record THEN 1 ELSE -1)

\* an update of an earlier dispatch: of key 1, to the record's own id, or
\* to a User that carries another id and belongs to the new Org
EarlyUpdate(modelName, key, value) ==
  /\ key = 1 /\ value.name = "b"
  /\ modelName = "User" => value.org_id = (IF value.id = key THEN 1 ELSE -1)

NextCache ==
  \/ \E last \in BOOLEAN :
       /\ CanDispatch(last)
       /\ \E T \in Models : \E record \in CacheRecords(T, CacheServerKeys) :
            /\ last \/ (record.id = 1 /\ EarlyRecord(T, record, "a"))
            /\ LOAD_RECORDS(T, <<record>>, last)
  \/ \E last \in BOOLEAN :
       /\ CanDispatch(last)
       /\ \E T \in Models : \E value \in CacheValues(T) :
            /\ last \/ EarlyRecord(T, value, "a")
            /\ CREATE_RECORD(T, value, last)
  \/ /\ CanDispatch(TRUE)
     /\ \E T \in Models, key \in CacheKeys :
          \E value \in CacheRecords(T, CacheServerKeys) \cup {null} :
            ACCEPT_CHANGES(T, key, value, TRUE)
  \/ \E last \in BOOLEAN :
       /\ CanDispatch(last)
       /\ \E T \in Models : \E key \in (IF last THEN CacheKeys ELSE EarlyKeys) :
            SET_DELETED(T, key, last)
  \/ \E last \in BOOLEAN :
       /\ CanDispatch(last)
       /\ \E T \in Models, key \in CacheKeys :
            \E value \in CacheRecords(T, CacheServerKeys) :
              /\ last \/ EarlyUpdate(T, key, value)
              /\ UPDATE_RECORD(T, key, value, last)
  \/ /\ CanDispatch(TRUE)
     /\ \E T \in Models, key \in CacheKeys : REJECT_CHANGES(T, key, TRUE)

SpecCache == Init /\ [][NextCache]_vars

(***************************************************************************)
(* Histories that end in a load or a create: up to MaxDispatches earlier   *)
(* loads and creates, then one LOAD_RECORDS of a batch of up to            *)
(* MaxCacheBatch records, with or without a key each, or one               *)
(* CREATE_RECORD, for a model that is registered or for one that is not.   *)
(***************************************************************************)
MaxCacheBatch == 2

\* a model the Cache was not constructed with
UnregisteredModels == {"Team"}
ModelNames == Models \cup UnregisteredModels

\* the values of a payload for a model name: a Team looks like an Org
PayloadRecords(modelName) ==
  IF modelName \in Models THEN CacheRecords(modelName, CacheServerKeys \cup {0})
  ELSE CacheRecords("Org", CacheServerKeys \cup {0})
PayloadValues(modelName) ==
  IF modelName \in Models THEN CacheValues(modelName) ELSE CacheValues("Org")

\* the batches LOAD_RECORDS is given: records named "a", each with a key,
\* with the key 0 or without one
CacheBatches(modelName) ==
  LET rs == {r \in PayloadRecords(modelName) \cup PayloadValues(modelName) : r.name = "a"}
  IN  UNION {[1..n -> rs] : n \in 1..MaxCacheBatch}

NextBatch ==
  \/ /\ CanDispatch(FALSE)
     /\ \E T \in Models : \E record \in CacheRecords(T, CacheServerKeys) :
          /\ EarlyRecord(T, record, "b")
          /\ LOAD_RECORDS(T, <<record>>, FALSE)
  \/ /\ CanDispatch(FALSE)
     /\ \E T \in Models : \E value \in CacheValues(T) :
          /\ EarlyRecord(T, value, "b")
          /\ CREATE_RECORD(T, value, FALSE)
  \/ /\ CanDispatch(TRUE)
     /\ \E T \in ModelNames : \E records \in CacheBatches(T) :
          LOAD_RECORDS(T, records, TRUE)
  \/ /\ CanDispatch(TRUE)
     /\ \E T \in ModelNames : \E value \in PayloadValues(T) :
          CREATE_RECORD(T, value, TRUE)

SpecBatch == Init /\ [][NextBatch]_vars

(***************************************************************************)
(* WorkerProxy and CacheWorker.  A message is [action, params]; `req` is   *)
(* not part of it: it remembers which call of dispatch the message belongs *)
(* to.  Messages are delivered in the order they were posted.              *)
(***************************************************************************)
MaxRequests == 3

\* the methods of CacheWorker a message can name here
WorkerMethods == {"echo", "dispatch"}

\* this[action](params): echo returns its argument, dispatch the name of the
\* action it dispatched
workerResult(name, params) ==
  IF name = "echo" THEN params ELSE params.action

\* the arguments of WorkerProxy.dispatch
ParamsOf(name) ==
  IF name = "dispatch"
    THEN {[action |-> a] : a \in {"LOAD_RECORDS", "UPDATE_RECORD"}}
    ELSE {"a", "b"}

\* WorkerProxy.on(action, handler) for the handler of promise p
on(hs, name, p) == [hs EXCEPT ![name] = Append(@, p)]

\* the handlers onMessage calls for a message: all of the action's
called(hs, name) == {hs[name][i] : i \in DOMAIN hs[name]}

\* WorkerProxy.dispatch(action, params, expects): the message is posted and
\* a handler is subscribed to `expects || action`; "" is no `expects`
WorkerProxyDispatch(name, params, expects) ==
  /\ Len(promises) < MaxRequests
  /\ LET p == Len(promises) + 1
     IN /\ posted' = Append(posted, [action |-> name, params |-> params, req |-> p])
        /\ handlers' = on(handlers, IF expects # "" THEN expects ELSE name, p)
        /\ promises' = Append(promises,
                              [action |-> name, expects |-> expects, calls |-> 0,
                               data |-> "", by |-> 0])
  /\ UNCHANGED <<replies, entityVars, cascadeVars, cacheVars, workerVars>>

\* CacheWorker's self.onmessage: no method of that name throws, otherwise
\* the method's result is posted back under the same action
CacheWorkerOnMessage ==
  /\ posted # <<>>
  /\ LET m == Head(posted)
     IN /\ posted' = Tail(posted)
        /\ replies' =
             IF m.action \notin WorkerMethods THEN replies
             ELSE Append(replies, [action |-> m.action,
                                   params |-> workerResult(m.action, m.params),
                                   req |-> m.req])
  /\ UNCHANGED <<handlers, promises, entityVars, cascadeVars, cacheVars, workerVars>>

\* WorkerProxy.onMessage: every handler of the message's action is called
\* with its params; a handler of dispatch unsubscribes and resolves its
\* promise, and resolving a settled promise changes nothing
WorkerProxyOnMessage ==
  /\ replies # <<>>
  /\ LET m == Head(replies)
         hs == called(handlers, m.action)
     IN /\ replies' = Tail(replies)
        /\ handlers' = [handlers EXCEPT ![m.action] = SelectSeq(@, LAMBDA h : h \notin hs)]
        /\ promises' =
             [p \in DOMAIN promises |->
                IF p \notin hs THEN promises[p]
                ELSE [promises[p] EXCEPT
                        !.calls = @ + 1,
                        !.data = IF promises[p].calls = 0 THEN m.params ELSE @,
                        !.by = IF promises[p].calls = 0 THEN m.req ELSE @]]
  /\ UNCHANGED <<posted, entityVars, cascadeVars, cacheVars, workerVars>>

\* WorkerProxy.off(): all handlers are dropped
WorkerProxyOff ==
  /\ handlers' = [a \in ActionNames |-> <<>>]
  /\ UNCHANGED <<posted, replies, promises, entityVars, cascadeVars, cacheVars, workerVars>>

NextProxy ==
  \/ \E name \in {"echo", "dispatch", "bogus"} :
       \E params \in ParamsOf(name), expects \in {"", "echo", "valueChanged"} :
         WorkerProxyDispatch(name, params, expects)
  \/ CacheWorkerOnMessage
  \/ WorkerProxyOnMessage
  \/ WorkerProxyOff

SpecProxy == Init /\ [][NextProxy]_vars

(***************************************************************************)
(* The data bindings of the CacheWorker.  getDataBindings observes one     *)
(* getter of the reactor for each key of `bindings`; an observer's handler *)
(* posts a valueChanged message when a dispatch changed the value of its   *)
(* getter.  Which getters a dispatch changes is left open: any set of      *)
(* them.  Flux.observe returns the function that removes the observer;     *)
(* here it is the observer's id.  reset is left out.                       *)
(***************************************************************************)
MaxWorkerCalls == 4

Namespaces == {"cache"}
Scopes == {"userModel", "orgModel"}
\* clearDataBindings called without a scope
NoScope == ""
\* the getters the worker is constructed with
Getters == {"userMap", "changedUsers"}
\* the `bindings` of a getDataBindings message: key -> getter key
BindingsOf == {[key \in K |-> key] : K \in SUBSET Getters \ {{}}}

CanCallWorker == Len(calls) < MaxWorkerCalls

\* the call is logged
Called(name, namespace, scope) ==
  calls' = Append(calls, [name |-> name, namespace |-> namespace, scope |-> scope])

\* calling every function of `unwatchers`
unwatch(obs, unwatchers) == {o \in obs : o.id \notin unwatchers}

\* CacheWorker.getDataBindings: `unwatchers` is the array nsBindings[scope],
\* which then ends up holding the new observers, or a new array when the
\* scope has none; a new array is not put into nsBindings
getDataBindings(namespace, scope, bnd) ==
  /\ CanCallWorker
  /\ LET nsBindings == IF namespace \in DOMAIN bindings THEN bindings[namespace] ELSE << >>
         unwatchers == IF scope \in DOMAIN nsBindings THEN nsBindings[scope] ELSE {}
         observed == {[id |-> <<Len(calls) + 1, key>>, namespace |-> namespace,
                        scope |-> scope, key |-> key, getter |-> bnd[key]]
                        : key \in DOMAIN bnd}
     IN  /\ bindings' = [n \in DOMAIN bindings \cup {namespace} |->
                           IF n = namespace
                             THEN [sc \in DOMAIN nsBindings |->
                                     IF sc = scope
                                       THEN {o.id : o \in observed}
                                       ELSE nsBindings[sc]]
                             ELSE bindings[n]]
         /\ observers' = unwatch(observers, unwatchers) \cup observed
  /\ valueChanges' = {}
  /\ Called("getDataBindings", namespace, scope)
  /\ UNCHANGED <<entityVars, cascadeVars, cacheVars, proxyVars>>

\* CacheWorker.clearDataBindings, of one scope or, with no scope, of every
\* scope this.bindings[namespace] has
clearDataBindings(namespace, scope) ==
  /\ CanCallWorker
  /\ IF namespace \notin DOMAIN bindings
       THEN UNCHANGED <<bindings, observers>>
       ELSE LET scopes == IF scope = NoScope THEN DOMAIN bindings[namespace]
                          ELSE {scope} \cap DOMAIN bindings[namespace]
                unwatchers == UNION {bindings[namespace][sc] : sc \in scopes}
            IN  /\ observers' = unwatch(observers, unwatchers)
                /\ bindings' = [bindings EXCEPT ![namespace] =
                                  [sc \in DOMAIN @ |-> IF sc \in scopes THEN {} ELSE @[sc]]]
  /\ valueChanges' = {}
  /\ Called("clearDataBindings", namespace, scope)
  /\ UNCHANGED <<entityVars, cascadeVars, cacheVars, proxyVars>>

\* CacheWorker.dispatch of an action that changes the values of `changed`:
\* every observer of one of them calls valueChanged
workerDispatch(changed) ==
  /\ CanCallWorker
  /\ valueChanges' = {[observer |-> o.id, namespace |-> o.namespace,
                       scope |-> o.scope, key |-> o.key]
                        : o \in {o \in observers : o.getter \in changed}}
  /\ Called("dispatch", "", NoScope)
  /\ UNCHANGED <<bindings, observers>>
  /\ UNCHANGED <<entityVars, cascadeVars, cacheVars, proxyVars>>

NextWorker ==
  \/ \E namespace \in Namespaces, scope \in Scopes : \E bnd \in BindingsOf :
       getDataBindings(namespace, scope, bnd)
  \/ \E namespace \in Namespaces, scope \in Scopes \cup {NoScope} :
       clearDataBindings(namespace, scope)
  \/ \E changed \in SUBSET Getters \ {{}} : workerDispatch(changed)

SpecWorker == Init /\ [][NextWorker]_vars

(***************************************************************************)
(* Properties.  `op` is the last call, op.before the store it was made on, *)
(* `store` the store it returned.                                          *)
(***************************************************************************)
Returned(name) == op.name = name /\ ~op.threw

\* the keys of current[relName] whose record has its foreign key for T equal to pk
referencing(s, relName, T, pk) ==
  {k \in DOMAIN s.current[relName] : foreignKeyGet(relName, s.current[relName][k], T) = pk}

\* current.accept returned, on a record that was in current, with a changed primary key
AcceptedNewKey ==
  /\ Returned("current.accept")
  /\ op.key \in DOMAIN op.before.current[op.type]
  /\ op.pk # op.key

\* C1 as claimed: after current.accept with a changed primary key, every
\* record of a related type that referenced the old key references the new
\* one, and no current record of a related type references the old key.
C1_AsClaimed ==
  AcceptedNewKey =>
    \A relName \in inverseRelations(op.type) :
      /\ \A k \in referencing(op.before, relName, op.type, op.key) :
           /\ k \in DOMAIN store.current[relName]
           /\ foreignKeyGet(relName, store.current[relName][k], op.type) = op.pk
      /\ referencing(store, relName, op.type, op.key) = {}

\* the accepted record and the records that referenced it were stored under
\* their own primary keys
C1_OwnKeys ==
  /\ keyFor(op.type, op.before.current[op.type][op.key]) = op.key
  /\ \A relName \in inverseRelations(op.type) :
       \A k \in referencing(op.before, relName, op.type, op.key) :
         keyFor(relName, op.before.current[relName][k]) = k

\* C1, amended: the same, when the accepted record and the records that
\* reference it are stored under their own primary keys.
C1_CascadeRewritesForeignKeys ==
  (AcceptedNewKey /\ C1_OwnKeys) =>
    \A relName \in inverseRelations(op.type) :
      /\ \A k \in referencing(op.before, relName, op.type, op.key) :
           /\ k \in DOMAIN store.current[relName]
           /\ foreignKeyGet(relName, store.current[relName][k], op.type) = op.pk
      /\ referencing(store, relName, op.type, op.key) = {}

\* C1's case: the key of a record with a child changed
C1_Witness ==
  /\ AcceptedNewKey /\ C1_OwnKeys
  /\ \E relName \in inverseRelations(op.type) :
       referencing(op.before, relName, op.type, op.key) # {}

\* the buckets of type T that hold something under key k
bucketsOf(s, T, k) ==
  {b \in {"initial", "current", "deleted"} : k \in DOMAIN s[b][T]}

\* C2 as claimed: after current.accept with a changed primary key, the old
\* key is in none of initial, current and deleted of the type, whatever the
\* state of the record was.
C2_AsClaimed ==
  (Returned("current.accept") /\ op.pk # op.key) =>
    bucketsOf(store, op.type, op.key) = {}

\* what current.accept does with the old key: it leaves current, and stays
\* in initial and in deleted exactly where it was
C2_OldKeyLeavesCurrentOnly ==
  (Returned("current.accept") /\ op.pk # op.key) =>
    bucketsOf(store, op.type, op.key)
      = bucketsOf(op.before, op.type, op.key) \ {"current"}

\* C2's failing case: the key of a record that has an accepted value changed
C2_Witness ==
  /\ AcceptedNewKey
  /\ "initial" \in bucketsOf(op.before, op.type, op.key)
  /\ "initial" \in bucketsOf(store, op.type, op.key)

\* current.delete returned on a key, and deleted.accept on the same key returns
DeletedThenAccepted ==
  /\ Returned("current.delete")
  /\ deletedAccept(store, op.type, op.key) # TypeError

\* C3 as claimed: after current.delete and then deleted.accept on the root
\* of a relation tree, no record of the tree, the root included, is in
\* initial, current or deleted of its type.
C3_AsClaimed ==
  DeletedThenAccepted =>
    \A n \in subtree(op.before, op.type, op.key) :
      bucketsOf(deletedAccept(store, op.type, op.key), n[1], n[2]) = {}

\* C3's failing case: the tree has a record that was never accepted between
\* the root and a record that was
C3_Witness ==
  /\ DeletedThenAccepted
  /\ \E n \in subtree(op.before, op.type, op.key) :
       /\ n # <<op.type, op.key>>
       /\ "initial" \in bucketsOf(deletedAccept(store, op.type, op.key), n[1], n[2])

\* C4: after current.accept of newRecord, initial and current hold newRecord
\* under its primary key, deleted holds nothing under it, and state()
\* classifies the record UNCHANGED, whatever the record's state was and
\* whether or not the primary key changed.
C4_AcceptedIsUnchanged ==
  Returned("current.accept") =>
    /\ initialGet(store, op.type, op.pk) = op.record
    /\ currentGet(store, op.type, op.pk) = op.record
    /\ op.pk \notin DOMAIN store.deleted[op.type]
    /\ state(store, op.type, op.record) = "UNCHANGED"

\* C4's cases: a record pending delete accepted under a changed key, and a
\* modified record accepted under its own key
C4_Witness ==
  /\ Returned("current.accept")
  /\ op.key \in DOMAIN op.before.current[op.type]
  /\ op.pk \in DOMAIN op.before.deleted[op.type]
  /\ op.pk # op.key
  /\ initialGet(op.before, op.type, op.pk) # op.record

\* the state of the record of type T with key k: absent when no bucket holds
\* the key, otherwise what state() returns for a record with that key
recordState(s, T, k) ==
  IF bucketsOf(s, T, k) = {} THEN "absent" ELSE stateOfKey(s, T, k)

\* the rows of the lifecycle table, for the last call: the state before it
\* of the record under the key of the call, and the state after it (under
\* the accepted record's key, for current.accept).  A record pending delete
\* counts as DELETED for current.reject if it has an accepted value or
\* anyDeleted is set.
Lifecycle(anyDeleted) ==
  LET T == op.type
      pre == recordState(op.before, T, op.key)
      post == recordState(store, T, op.key)
      ini == initialGet(op.before, T, op.key)
  IN  /\ (Returned("initial.load") /\ pre = "absent") => post = "UNCHANGED"
      /\ (Returned("current.create") /\ pre = "absent") => post = "NEW"
      /\ (Returned("current.set") /\ pre = "UNCHANGED" /\ op.record # ini)
           => post = "MODIFIED"
      /\ (Returned("current.set") /\ pre = "MODIFIED" /\ op.record = ini)
           => post = "UNCHANGED"
      /\ (Returned("current.accept") /\ pre \in {"NEW", "MODIFIED"})
           => recordState(store, T, op.pk) = "UNCHANGED"
      /\ (Returned("current.delete") /\ pre = "NEW") => post = "absent"
      /\ (Returned("current.delete") /\ pre \in {"UNCHANGED", "MODIFIED"})
           => post = "DELETED"
      /\ (Returned("deleted.accept") /\ pre = "DELETED") => post = "absent"
      /\ (Returned("current.reject") /\ pre = "NEW") => post = "absent"
      /\ (Returned("current.reject") /\ pre = "MODIFIED") => post = "UNCHANGED"
      /\ (Returned("current.reject") /\ pre = "DELETED" /\ (anyDeleted \/ truthy(ini)))
           => post = "UNCHANGED"

deletedHaveInitial(s) ==
  \A T \in Types : DOMAIN s.deleted[T] \subseteq DOMAIN s.initial[T]

C7_AsClaimed ==
  \A T \in Types : \A k \in DOMAIN store.current[T] \ DOMAIN store.initial[T] :
    state(store, T, store.current[T][k]) = "NEW"

\* C7, amended: a record in current[T][k] under its own primary key, with
\* nothing in initial[T][k] and nothing in deleted[T][k], is classified NEW.
C7_NewWithoutInitial ==
  \A T \in Types : \A k \in DOMAIN store.current[T] \ DOMAIN store.initial[T] :
    (keyFor(T, store.current[T][k]) = k /\ k \notin DOMAIN store.deleted[T])
      => state(store, T, store.current[T][k]) = "NEW"

\* C7's case: a created record beside a record of its type that is pending delete
C7_Witness ==
  \E T \in Types : \E k \in DOMAIN store.current[T] \ DOMAIN store.initial[T] :
    /\ keyFor(T, store.current[T][k]) = k
    /\ k \notin DOMAIN store.deleted[T]
    /\ k # 1
    /\ 1 \in DOMAIN store.deleted[T]

\* the last call was a create that assigned the key
AutoCreated ==
  Returned("current.create") /\ ~truthyKey(keyFor(op.type, op.record))

\* C8: nextKey is at most -1 in every store; a create that auto-assigns a
\* key decrements it by exactly one, and every other call leaves it as it was.
C8_NextKeyOnlyDecrements ==
  /\ store.nextKey <= -1
  /\ AutoCreated => store.nextKey = op.before.nextKey - 1
  /\ (op # NoCall /\ ~AutoCreated) => store.nextKey = op.before.nextKey

\* C8's case: a second key was assigned
C8_Witness == AutoCreated /\ op.before.nextKey < -1

\* C9: every auto-assigned key is a negative integer, and no two
\* auto-assigning creates of one history return the same key, whatever
\* their entity types.
C9_AutoKeysNegativeDistinct ==
  /\ \A i \in DOMAIN autoKeys : autoKeys[i][2] \in Int /\ autoKeys[i][2] < 0
  /\ \A i, j \in DOMAIN autoKeys : i # j => autoKeys[i][2] # autoKeys[j][2]

\* C9's case: two creates on different entity types assigned keys
C9_Witness ==
  \E i, j \in DOMAIN autoKeys : autoKeys[i][1] # autoKeys[j][1]

\* C10 as claimed: before an auto-assigning create, no bucket of the type
\* holds a record under the key it assigns.
C10_AsClaimed ==
  AutoCreated => bucketsOf(op.before, op.type, op.pk) = {}

\* C10's failing case: the create replaced a record that was in current
C10_Witness ==
  /\ AutoCreated
  /\ op.pk \in DOMAIN op.before.current[op.type]
  /\ op.before.current[op.type][op.pk] # store.current[op.type][op.pk]

\* the last call was a create of a record that has a value at its key path
CreatedWithKey ==
  Returned("current.create") /\ typedefs[op.type].key \in DOMAIN op.record

\* C11 as claimed: current.create of a record that has a value at its key
\* path, whatever the value, stores the record under that key, returns that
\* key and the record as given, and leaves nextKey alone.
C11_AsClaimed ==
  CreatedWithKey =>
    LET r == currentCreate(op.before, op.type, op.record)
        key == keyFor(op.type, op.record)
    IN  /\ r.pk = key
        /\ r.record = op.record
        /\ currentGet(store, op.type, key) = op.record
        /\ store.nextKey = op.before.nextKey

\* C11's failing case: a record created with key 0 came back under the key
\* taken from nextKey
C11_Witness ==
  /\ CreatedWithKey
  /\ keyFor(op.type, op.record) = 0
  /\ op.pk = op.before.nextKey
  /\ currentCreate(op.before, op.type, op.record).record # op.record
  /\ store.nextKey # op.before.nextKey

\* the bucket entries (bucket, type, key) whose presence or value differs
\* between two stores
changed(s, t) ==
  {e \in {"initial", "current", "deleted"} \X Types \X (Keys \cup {undefined}) :
     mapGet(s[e[1]][e[2]], e[3]) # mapGet(t[e[1]][e[2]], e[3])}

\* the last call was a current.reject on a key that has / has not an accepted value
RejectedWithInitial ==
  Returned("current.reject") /\ op.key \in DOMAIN op.before.initial[op.type]
RejectedWithoutInitial ==
  Returned("current.reject") /\ op.key \notin DOMAIN op.before.initial[op.type]

\* what C12 says of a key that has an accepted value
C12_WithInitial ==
  RejectedWithInitial =>
    /\ op.key \notin DOMAIN store.deleted[op.type]
    /\ currentGet(store, op.type, op.key) = initialGet(store, op.type, op.key)
    /\ initialGet(store, op.type, op.key) = initialGet(op.before, op.type, op.key)
    /\ recordState(store, op.type, op.key) = "UNCHANGED"

\* C12 as claimed: current.reject on a key with an accepted value clears
\* deleted, sets current to initial, keeps initial, and the state is
\* UNCHANGED; on a key without one it removes the key from current and adds
\* nothing to initial or deleted, of any type.
C12_AsClaimed ==
  /\ C12_WithInitial
  /\ RejectedWithoutInitial =>
       /\ op.key \notin DOMAIN store.current[op.type]
       /\ \A T \in Types :
            /\ DOMAIN store.initial[T] \subseteq DOMAIN op.before.initial[T]
            /\ DOMAIN store.deleted[T] \subseteq DOMAIN op.before.deleted[T]

\* C12, amended: the same, where on a key without an accepted value nothing
\* is added to initial or deleted of the record's own type.
C12_RejectRestoresOrRemoves ==
  /\ C12_WithInitial
  /\ RejectedWithoutInitial =>
       /\ op.key \notin DOMAIN store.current[op.type]
       /\ store.initial[op.type] = op.before.initial[op.type]
       /\ store.deleted[op.type] = op.before.deleted[op.type]

\* C12's case: a record pending delete was rejected
C12_Witness ==
  /\ RejectedWithInitial
  /\ op.key \in DOMAIN op.before.deleted[op.type]
  /\ op.key \in DOMAIN op.before.current[op.type]

\* C13 as claimed: current.reject changes no bucket entry other than
\* current[T][pk] and deleted[T][pk].
C13_AsClaimed ==
  Returned("current.reject") =>
    changed(op.before, store)
      \subseteq {<<"current", op.type, op.key>>, <<"deleted", op.type, op.key>>}

\* C13, amended: on a key that has an accepted value current.reject changes
\* no entry other than current[T][pk] and deleted[T][pk]; on a key that has
\* none it is current.delete, which changes current and deleted entries of
\* the records below the rejected one, and no initial entry.
C13_RejectIsLocalWithInitial ==
  /\ RejectedWithInitial =>
       changed(op.before, store)
         \subseteq {<<"current", op.type, op.key>>, <<"deleted", op.type, op.key>>}
  /\ RejectedWithoutInitial =>
       /\ store = currentDelete(op.before, op.type, op.key)
       /\ \A e \in changed(op.before, store) :
            /\ e[1] # "initial"
            /\ <<e[2], e[3]>> \in subtree(op.before, op.type, op.key)

\* C13's case: the reject of a record with no accepted value changed a
\* record of another type
C13_Witness ==
  /\ RejectedWithoutInitial
  /\ \E e \in changed(op.before, store) : e[2] # op.type

\* C14 as claimed: for every store and record, current.reject of the key
\* that current.create returned gives back the current bucket of the type
\* as it was before the create.
C14_AsClaimed ==
  Returned("current.create") =>
    LET r == currentReject(store, op.type, op.pk)
    IN  r # TypeError /\ currentGetAll(r, op.type) = currentGetAll(op.before, op.type)

\* C14, amended: the same, when before the create the store held nothing
\* under the returned key in current and in initial of the type.
C14_CreateThenReject ==
  (/\ Returned("current.create")
   /\ op.pk \notin DOMAIN op.before.current[op.type]
   /\ op.pk \notin DOMAIN op.before.initial[op.type]) =>
    LET r == currentReject(store, op.type, op.pk)
    IN  r # TypeError /\ currentGetAll(r, op.type) = currentGetAll(op.before, op.type)

\* C14's case: a record created under a free key beside other records of its type
C14_Witness ==
  /\ Returned("current.create")
  /\ op.pk \notin DOMAIN op.before.current[op.type]
  /\ op.pk \notin DOMAIN op.before.initial[op.type]
  /\ DOMAIN op.before.current[op.type] # {}
  /\ currentGetAll(store, op.type) # currentGetAll(op.before, op.type)

\* C15 as claimed: a second current.reject on the same key succeeds and
\* returns the store the first one returned.
C15_AsClaimed ==
  Returned("current.reject") => currentReject(store, op.type, op.key) = store

\* C15's failing case: the first reject removed a record with no accepted
\* value, of a type that has inverse foreign keys, and the second throws
C15_Witness ==
  /\ RejectedWithoutInitial
  /\ op.key \in DOMAIN op.before.current[op.type]
  /\ inverseRelations(op.type) # {}
  /\ currentReject(store, op.type, op.key) = TypeError

\* C16: deleted.reject removes deleted[T][pk] and changes nothing else, and
\* a second deleted.reject changes nothing; after current.delete of a
\* record that has an accepted value, deleted.reject gives the record the
\* state and the current value it had before the delete.
C16_DeletedRejectOnlyUntombstones ==
  /\ Returned("deleted.reject") =>
       /\ op.key \notin DOMAIN store.deleted[op.type]
       /\ changed(op.before, store) \subseteq {<<"deleted", op.type, op.key>>}
       /\ store.nextKey = op.before.nextKey
       /\ deletedReject(store, op.type, op.key) = store
  /\ (/\ Returned("current.delete")
      /\ recordState(op.before, op.type, op.key) \in {"UNCHANGED", "MODIFIED"}) =>
       LET r == deletedReject(store, op.type, op.key)
       IN  /\ recordState(r, op.type, op.key) = recordState(op.before, op.type, op.key)
           /\ currentGet(r, op.type, op.key) = currentGet(op.before, op.type, op.key)
           /\ deletedReject(r, op.type, op.key) = r

\* C16's case: a modified record was tombstoned
C16_Witness ==
  /\ Returned("current.delete")
  /\ recordState(op.before, op.type, op.key) = "MODIFIED"
  /\ recordState(store, op.type, op.key) = "DELETED"

\* the batch of the last initial.load, and the keys of its records
Loaded == op.record.batch
loadedKeys == {keyFor(op.type, Loaded[i]) : i \in DOMAIN Loaded}
\* the record of the batch that is written last under key k
lastLoaded(k) ==
  LET i == CHOOSE i \in DOMAIN Loaded :
             /\ keyFor(op.type, Loaded[i]) = k
             /\ \A j \in DOMAIN Loaded : keyFor(op.type, Loaded[j]) = k => j <= i
  IN  Loaded[i]

\* the last call loaded a batch of records with distinct keys into the empty store
LoadedDistinctIntoEmpty ==
  /\ Returned("initial.load")
  /\ op.before = newStore
  /\ \A i, j \in DOMAIN Loaded :
       i # j => keyFor(op.type, Loaded[i]) # keyFor(op.type, Loaded[j])

\* C17: loading a list of records with distinct keys into the empty store
\* gives current.getAll equal to initial.getAll for the type, each holding
\* exactly the records of the list under their keys, and empty deleted buckets.
C17_LoadIntoEmptyStore ==
  LoadedDistinctIntoEmpty =>
    /\ currentGetAll(store, op.type) = initialGetAll(store, op.type)
    /\ DOMAIN initialGetAll(store, op.type) = loadedKeys
    /\ \A i \in DOMAIN Loaded :
         initialGet(store, op.type, keyFor(op.type, Loaded[i])) = Loaded[i]
    /\ \A T \in Types : deletedGetAll(store, T) = EmptyMap

\* C17's case: a batch of two records
C17_Witness == LoadedDistinctIntoEmpty /\ Len(Loaded) >= 2

\* C18: after initial.set, and after initial.load for each key of the batch
\* (with the record written last under it), initial and current hold the
\* record under the key and deleted holds nothing, whatever the store held
\* under the key before.
C18_SetReplacesPending ==
  /\ Returned("initial.set") =>
       /\ initialGet(store, op.type, op.key) = op.record
       /\ currentGet(store, op.type, op.key) = op.record
       /\ op.key \notin DOMAIN store.deleted[op.type]
  /\ Returned("initial.load") =>
       \A k \in loadedKeys :
         /\ initialGet(store, op.type, k) = lastLoaded(k)
         /\ currentGet(store, op.type, k) = lastLoaded(k)
         /\ k \notin DOMAIN store.deleted[op.type]

\* C18's case: the batch replaced a record pending delete by another value
C18_Witness ==
  /\ Returned("initial.load")
  /\ \E k \in loadedKeys :
       /\ k \in DOMAIN op.before.deleted[op.type]
       /\ k \in DOMAIN op.before.initial[op.type]
       /\ op.before.initial[op.type][k] # lastLoaded(k)

\* the last call was a current.delete on a record in current
DeletedCurrent ==
  Returned("current.delete") /\ op.key \in DOMAIN op.before.current[op.type]

\* C19: current.delete of a record in current that has an accepted value
\* puts the value current had into deleted and leaves current and initial of
\* the key as they were; of a record that has none, it removes the key from
\* current and leaves deleted of the type as it was.
C19_DeleteTombstonesOrRemoves ==
  DeletedCurrent =>
    IF op.key \in DOMAIN op.before.initial[op.type]
      THEN /\ deletedGet(store, op.type, op.key) = op.before.current[op.type][op.key]
           /\ currentGet(store, op.type, op.key) = op.before.current[op.type][op.key]
           /\ initialGet(store, op.type, op.key) = op.before.initial[op.type][op.key]
      ELSE /\ op.key \notin DOMAIN store.current[op.type]
           /\ deletedGetAll(store, op.type) = deletedGetAll(op.before, op.type)

\* C19's case: an edited record was deleted
C19_Witness ==
  /\ DeletedCurrent
  /\ op.key \in DOMAIN op.before.initial[op.type]
  /\ op.before.current[op.type][op.key] # op.before.initial[op.type][op.key]

\* C20: after current.delete every record that was reachable from the
\* deleted one through inverse foreign keys in current is in deleted of its
\* type if it has an accepted value, and out of current if it has none.
C20_DeleteCascades ==
  DeletedCurrent =>
    \A n \in subtree(op.before, op.type, op.key) :
      IF n[2] \in DOMAIN op.before.initial[n[1]]
        THEN n[2] \in DOMAIN store.deleted[n[1]]
        ELSE n[2] \notin DOMAIN store.current[n[1]]

\* C20's case: the tree has three levels, with an accepted record below a
\* record that was never accepted
C20_Witness ==
  /\ DeletedCurrent
  /\ op.type = "AdAccount"
  /\ \E c \in DOMAIN op.before.current["AdCampaign"] :
       /\ <<"AdCampaign", c>> \in subtree(op.before, op.type, op.key)
       /\ c \notin DOMAIN op.before.initial["AdCampaign"]
       /\ \E a \in DOMAIN op.before.initial["Ad"] :
            <<"Ad", a>> \in subtree(op.before, "AdCampaign", c)

\* every record of current[T] is stored under its own primary key
ownKeys(s, T) ==
  \A k \in DOMAIN s.current[T] : keyFor(T, s.current[T][k]) = k

\* the entries of current[T] whose key has an accepted value that differs
\* from the current one and has no record in deleted
changedByKey(s, T) ==
  LET cur == s.current[T]
  IN  [k \in {k \in DOMAIN cur : /\ truthy(initialGet(s, T, k))
                                 /\ cur[k] # initialGet(s, T, k)
                                 /\ ~truthy(deletedGet(s, T, k))} |-> cur[k]]

\* C21 as claimed: in every store getAllChanged for T is the entries
\* current[T][k] with initial[T][k] present and different and deleted[T][k]
\* absent.
C21_AsClaimed ==
  \A T \in Types : getAllChanged(store, T) = changedByKey(store, T)

\* C21, amended: the same for every type whose current records are stored
\* under their own primary keys.
C21_ChangedRecords ==
  \A T \in Types : ownKeys(store, T) => getAllChanged(store, T) = changedByKey(store, T)

\* C21's case: an edited record is listed, beside an edited record pending
\* delete or a new record that is not
C21_Witness ==
  \E T \in Types :
    /\ ownKeys(store, T)
    /\ getAllChanged(store, T) # EmptyMap
    /\ DOMAIN getAllChanged(store, T) # DOMAIN store.current[T]

\* C22: for a key in current, getChangedProperties returns the fields of
\* the current record that the accepted record lacks or holds with another
\* value, the whole current record when there is no accepted record, and
\* the empty record exactly when no field of current differs.
C22_ChangedProperties ==
  \A T \in Types : \A k \in DOMAIN store.current[T] :
    LET cur == store.current[T][k]
        got == getChangedProperties(store, T, k)
    IN  IF k \in DOMAIN store.initial[T]
          THEN LET ini == store.initial[T][k]
                   differing == {f \in DOMAIN cur : f \notin DOMAIN ini \/ cur[f] # ini[f]}
               IN  /\ got = [f \in differing |-> cur[f]]
                   /\ (DOMAIN got = {}) = (differing = {})
          ELSE got = cur

\* C22's case: an edited record with a field whose value changed and a
\* field that stayed
C22_Witness ==
  \E T \in Types : \E k \in DOMAIN store.current[T] \cap DOMAIN store.initial[T] :
    LET cur == store.current[T][k]
        ini == store.initial[T][k]
        got == getChangedProperties(store, T, k)
    IN  /\ \E f \in DOMAIN got : f \in DOMAIN ini
        /\ \E f \in DOMAIN cur : f \notin DOMAIN got

\* every key a record can be stored under
AllKeys == Keys \cup {undefined}

C24_AsClaimed == ~op.threw

\* C24's failing case: a call on a key that is not in current, of a type
\* with inverse foreign keys, threw
C24_Witness ==
  /\ op.threw
  /\ op.name \in {"current.accept", "current.reject", "current.delete", "deleted.accept"}
  /\ op.key \notin DOMAIN op.before.current[op.type]
  /\ inverseRelations(op.type) # {}

\* the last call was an initial.load of a batch with a record that has no
\* value at its key path
LoadedKeyless ==
  /\ op.name = "initial.load"
  /\ \E i \in DOMAIN op.record.batch : typedefs[op.type].key \notin DOMAIN op.record.batch[i]

\* C25 as claimed: initial.load of a batch with a record that has no value
\* at its key path fails and leaves the store as it was.
C25_AsClaimed == LoadedKeyless => (op.threw /\ store = op.before)

\* C25's failing case: the load returned and the record is in initial and
\* current under the key undefined
C25_Witness ==
  /\ LoadedKeyless
  /\ ~op.threw
  /\ undefined \in DOMAIN store.initial[op.type]
  /\ undefined \in DOMAIN store.current[op.type]
  /\ undefined \notin DOMAIN op.before.initial[op.type]

\* C26 as claimed: the cascade of current.delete and deleted.accept makes
\* finitely many calls, also when records reference each other in a cycle:
\* no call is ever nested in the same call on the same store.
C26_AsClaimed == ~Reentered

\* C26's failing case: two records that are each other's parent; the call
\* on the first is nested in the call on the second, nested in the call on
\* the first
C26_Witness ==
  /\ Reentered
  /\ Len(stack) = 3
  /\ stack[1].key # stack[2].key
  /\ stack[3].key = stack[1].key
  /\ stack[3].cur = stack[1].cur

\* the last dispatch was `name` and its handler returned
Dispatched(name) == action.name = name /\ ~action.threw

\* every current record of the model is stored under the key it carries
cacheOwnKeys(st, modelName) ==
  \A k \in DOMAIN st.currentValues[modelName] :
    getIn(st.currentValues[modelName][k], models[modelName].KEYPATH) = k

\* the keys of the current records of relType whose foreign key is `key`
dependents(st, modelName, key, relType) ==
  {k \in DOMAIN st.currentValues[relType] :
     getIn(st.currentValues[relType][k],
           models[modelName].INVERSE_FOREIGN_KEYS[relType]) = key}

\* ACCEPT_CHANGES was dispatched with a value that carries another key
AcceptedOtherKey ==
  /\ action.name = "ACCEPT_CHANGES"
  /\ action.value # null
  /\ getIn(action.value, models[action.model].KEYPATH) # undefined
  /\ getIn(action.value, models[action.model].KEYPATH) # action.key

\* what C27 says of the state after ACCEPT_CHANGES with another key
Rekeyed ==
  LET T == action.model
      newKey == getIn(action.value, models[T].KEYPATH)
  IN /\ action.key \notin DOMAIN cache.initialValues[T]
     /\ action.key \notin DOMAIN cache.currentValues[T]
     /\ mapGet(cache.initialValues[T], newKey) = action.value
     /\ mapGet(cache.currentValues[T], newKey) = action.value
     /\ \A relType \in DOMAIN models[T].INVERSE_FOREIGN_KEYS :
          \A k \in dependents(action.before, T, action.key, relType) :
            /\ k \in DOMAIN cache.currentValues[relType]
            /\ getIn(cache.currentValues[relType][k],
                     models[T].INVERSE_FOREIGN_KEYS[relType]) = newKey

C27_Mismatch ==
  /\ AcceptedOtherKey
  /\ ~Rekeyed

\* the keys of the record and of all its dependents, along the inverse
\* foreign keys, in the state before the dispatch
RECURSIVE removedWith(_, _, _, _)
removedWith(st, modelName, key, depth) ==
  {<<modelName, key>>} \cup
    (IF depth = 0 THEN {}
     ELSE UNION {UNION {removedWith(st, relType, k, depth - 1) :
                          k \in dependents(st, modelName, key, relType)} :
                   relType \in DOMAIN models[modelName].INVERSE_FOREIGN_KEYS})

\* C28 as claimed: after ACCEPT_CHANGES with value null the key, and the key
\* of every dependent record, is in none of initialValues, currentValues and
\* the deleted keys, and initialValues equals currentValues.
C28_AsClaimed ==
  (Dispatched("ACCEPT_CHANGES") /\ action.value = null)
    => /\ \A e \in removedWith(action.before, action.model, action.key, Cardinality(Models)) :
            /\ e[2] \notin DOMAIN cache.initialValues[e[1]]
            /\ e[2] \notin DOMAIN cache.currentValues[e[1]]
            /\ e[2] \notin cache.deleted[e[1]]
       /\ cache.initialValues = cache.currentValues

\* C28's failing case: a loaded record is marked deleted and the delete is
\* accepted; nothing else is pending, the record is gone, its mark is not
C28_Witness ==
  /\ Dispatched("ACCEPT_CHANGES") /\ action.value = null
  /\ action.key \in DOMAIN action.before.initialValues[action.model]
  /\ action.key \in action.before.deleted[action.model]
  /\ action.key \notin DOMAIN cache.currentValues[action.model]
  /\ cache.initialValues = cache.currentValues
  /\ action.key \in cache.deleted[action.model]
  /\ undefinedRecord \in deletedRecords(cache, action.model)

\* the state without the record under `key`
withoutRecord(st, modelName, key) == _removeRecord(st, modelName, key)

\* C29, first part: SET_DELETED adds the key to the deleted keys of the model
\* and changes neither initialValues nor currentValues.
C29_SetDeleted ==
  Dispatched("SET_DELETED")
    => /\ action.key \in cache.deleted[action.model]
       /\ cache.initialValues = action.before.initialValues
       /\ cache.currentValues = action.before.currentValues

\* C29, second part: a record whose key is marked is listed by deletedRecords
\* with its current value and adds nothing to changedRecords and changeSet.
C29_Marked ==
  \A T \in Models : \A k \in cache.deleted[T] :
    (k \in DOMAIN cache.currentValues[T] /\ cacheOwnKeys(cache, T))
      => /\ cache.currentValues[T][k] \in deletedRecords(cache, T)
         /\ changedRecords(cache, T) = changedRecords(withoutRecord(cache, T, k), T)
         /\ changeSet(cache, T) = changeSet(withoutRecord(cache, T, k), T)

\* C29, third part: REJECT_CHANGES for a marked key removes the mark and
\* sets the current value back to the initial value.
C29_Rejected ==
  (Dispatched("REJECT_CHANGES") /\ action.key \in action.before.deleted[action.model])
    => /\ action.key \notin cache.deleted[action.model]
       /\ mapGet(cache.currentValues[action.model], action.key)
            = mapGet(action.before.initialValues[action.model], action.key)

\* C29 as claimed: SET_DELETED marks the key and leaves initialValues and
\* currentValues alone; a marked record is in deletedRecords and not in
\* changedRecords or changeSet; REJECT_CHANGES removes the mark and restores
\* the initial value.
C29_AsClaimed == C29_SetDeleted /\ C29_Marked /\ C29_Rejected

\* C29's failing case: a created record is marked deleted and then
\* rejected; the record is gone and its key is still marked
C29_Witness ==
  /\ Dispatched("REJECT_CHANGES")
  /\ action.key \in action.before.deleted[action.model]
  /\ action.key \in DOMAIN action.before.currentValues[action.model]
  /\ action.key \notin DOMAIN action.before.initialValues[action.model]
  /\ action.key \notin DOMAIN cache.currentValues[action.model]
  /\ action.key \in cache.deleted[action.model]

\* C29's other case: a changed record is marked; it is in deletedRecords and
\* in neither changedRecords nor changeSet
C29_MarkedChanged ==
  /\ Dispatched("SET_DELETED")
  /\ cacheOwnKeys(cache, action.model)
  /\ action.key \in DOMAIN cache.initialValues[action.model]
  /\ cache.currentValues[action.model][action.key]
       # cache.initialValues[action.model][action.key]
  /\ changedRecords(cache, action.model) = {}
  /\ changeSet(cache, action.model) = {}
  /\ deletedRecords(cache, action.model) = {cache.currentValues[action.model][action.key]}

\* promise p has been resolved
Resolved(p) == promises[p].calls > 0

\* C30 as claimed: the promise of each dispatch is resolved once, and with
\* the payload of the worker's reply to that same call, also when two calls
\* expecting the same action are in flight at once.
C30_AsClaimed ==
  \A p \in DOMAIN promises :
    /\ promises[p].calls <= 1
    /\ Resolved(p) => promises[p].by = p

\* C30's failing case: two calls of echo with different params are in flight
\* at once; the first reply resolves both promises with the first call's
\* payload, and the second reply is still to come
C30_Witness ==
  \E p, q \in DOMAIN promises :
    /\ p < q
    /\ promises[p].action = "echo" /\ promises[q].action = "echo"
    /\ promises[p].expects = "" /\ promises[q].expects = ""
    /\ Resolved(p) /\ Resolved(q)
    /\ promises[p].by = p /\ promises[q].by = p
    /\ \E i \in DOMAIN replies :
         /\ replies[i].req = q
         /\ replies[i].params # promises[q].data

\* C31: foreignKey.set returns the record it was given with the foreign key
\* for relName set to the value and nothing else changed, and a store that
\* holds that record in current under the record's own key; initial,
\* deleted, nextKey, the other keys of current and the other types are as
\* they were.
C31_ForeignKeySetFrame ==
  Returned("foreignKey.set") =>
    LET T == op.type
        given == op.record.record
        path == typedefs[T].foreignKeys[op.record.relName]
        rec == foreignKeySetRecord(T, op.record.relName, given, op.record.value)
    IN  /\ DOMAIN rec = DOMAIN given \cup {path}
        /\ rec[path] = op.record.value
        /\ \A f \in DOMAIN given \ {path} : rec[f] = given[f]
        /\ currentGet(store, T, keyFor(T, rec)) = rec
        /\ changed(op.before, store) \subseteq {<<"current", T, keyFor(T, rec)>>}
        /\ store.nextKey = op.before.nextKey

\* C31's case: the foreign key of a record that has an accepted value is
\* changed, in a type that holds another record
C31_Witness ==
  /\ Returned("foreignKey.set")
  /\ op.record.value # foreignKeyGet(op.type, op.record.record, op.record.relName)
  /\ initialGet(store, op.type, op.pk) = op.record.record
  /\ currentGet(store, op.type, op.pk) # op.record.record
  /\ DOMAIN store.current[op.type] # {op.pk}

\* C32: current.create writes current under the created key, and nextKey
\* when it assigns the key, and nothing else: initial and deleted of every
\* type, the other keys of current and the other types are as they were; a
\* record created under a key with no accepted value is in getAllNew and
\* not in getAllChanged.
C32_CreateFrame ==
  Returned("current.create") =>
    /\ changed(op.before, store) \subseteq {<<"current", op.type, op.pk>>}
    /\ ~AutoCreated => store.nextKey = op.before.nextKey
    /\ ~truthy(initialGet(store, op.type, op.pk))
         => /\ op.pk \in DOMAIN getAllNew(store, op.type)
            /\ op.pk \notin DOMAIN getAllChanged(store, op.type)

\* C32's case: a record is created, under a key without an accepted value,
\* in a type that has an accepted record with a pending change
C32_Witness ==
  /\ Returned("current.create")
  /\ ~truthy(initialGet(store, op.type, op.pk))
  /\ op.pk \in DOMAIN getAllNew(store, op.type)
  /\ getAllChanged(store, op.type) # EmptyMap
  /\ getAllChanged(store, op.type) = getAllChanged(op.before, op.type)

\* the keys of current[relName] whose record was UNCHANGED before the last
\* call and referenced, for type T, the key pk
unchangedReferencing(s, relName, T, pk) ==
  {k \in referencing(s, relName, T, pk) :
     state(s, relName, s.current[relName][k]) = "UNCHANGED"}

\* after the last call the record of relName under key k is MODIFIED, is in
\* getAllChanged, and its foreign key for T, now pk, is its only changed
\* property
modifiedByForeignKey(relName, k, T, pk) ==
  /\ stateOfKey(store, relName, k) = "MODIFIED"
  /\ k \in DOMAIN getAllChanged(store, relName)
  /\ getChangedProperties(store, relName, k)
       = [f \in {typedefs[relName].foreignKeys[T]} |-> pk]

\* C33 as claimed: after current.accept with a changed primary key, initial
\* and deleted of the related types are as they were, and every record of a
\* related type that referenced the old key and was UNCHANGED is MODIFIED,
\* with the foreign key as its only changed property.
C33_AsClaimed ==
  AcceptedNewKey =>
    \A relName \in inverseRelations(op.type) :
      /\ store.initial[relName] = op.before.initial[relName]
      /\ store.deleted[relName] = op.before.deleted[relName]
      /\ \A k \in unchangedReferencing(op.before, relName, op.type, op.key) :
           modifiedByForeignKey(relName, k, op.type, op.pk)

\* C33, amended: the same, when the accepted record and the records that
\* reference it are stored under their own primary keys.
C33_CascadeLeavesBaseline ==
  (AcceptedNewKey /\ C1_OwnKeys) =>
    \A relName \in inverseRelations(op.type) :
      /\ store.initial[relName] = op.before.initial[relName]
      /\ store.deleted[relName] = op.before.deleted[relName]
      /\ \A k \in unchangedReferencing(op.before, relName, op.type, op.key) :
           modifiedByForeignKey(relName, k, op.type, op.pk)

\* C33's case: the key of a record changed that an UNCHANGED record of a
\* related type referenced
C33_Witness ==
  /\ AcceptedNewKey /\ C1_OwnKeys /\ truthyKey(op.pk)
  /\ \E relName \in inverseRelations(op.type) :
       unchangedReferencing(op.before, relName, op.type, op.key) # {}

\* current.delete returned on a record in current that has an accepted value
DeletedWithBaseline ==
  DeletedCurrent /\ truthy(initialGet(op.before, op.type, op.key))

\* the records below the deleted one, as the cascade of current.delete met them
cascaded == subtree(op.before, op.type, op.key) \ {<<op.type, op.key>>}

\* C34: current.reject after current.delete on a record with an accepted
\* value leaves the record UNCHANGED and does not undo the cascade: every
\* record below it that the delete put in deleted is still there, DELETED,
\* and every record below it that the delete removed from current is still
\* absent.
C34_RejectLeavesChildren ==
  DeletedWithBaseline =>
    LET after == currentReject(store, op.type, op.key)
    IN  /\ stateOfKey(after, op.type, op.key) = "UNCHANGED"
        /\ \A n \in cascaded :
             /\ n[2] \in DOMAIN store.deleted[n[1]]
                  => /\ n[2] \in DOMAIN after.deleted[n[1]]
                     /\ stateOfKey(after, n[1], n[2]) = "DELETED"
             /\ n[2] \notin DOMAIN op.before.initial[n[1]]
                  => recordState(after, n[1], n[2]) = "absent"

\* C34's case: the deleted record had a child with an accepted value and a
\* child that was never accepted
C34_Witness ==
  /\ DeletedWithBaseline
  /\ \E n \in cascaded :
       /\ n[2] \in DOMAIN store.deleted[n[1]]
       /\ n[2] \notin DOMAIN op.before.deleted[n[1]]
  /\ \E n \in cascaded :
       /\ n[2] \notin DOMAIN op.before.initial[n[1]]
       /\ n[2] \notin DOMAIN store.current[n[1]]

\* C36: in every store made without the direct set operations, every record
\* stored in initial, current or deleted of a type is stored under its own
\* primary key.
C36_KeyConsistency ==
  \A b \in {"initial", "current", "deleted"} : \A T \in Types :
    \A k \in DOMAIN store[b][T] :
      truthy(store[b][T][k]) => keyFor(T, store[b][T][k]) = k

\* C36's case: a primary key changed (the old key has an accepted value
\* and no current one) and a record that referenced it was rewritten
C36_Witness ==
  \E T \in Types : \E relName \in inverseRelations(T) :
    /\ DOMAIN store.initial[T] \ DOMAIN store.current[T] # {}
    /\ \E c \in DOMAIN store.current[relName] \cap DOMAIN store.initial[relName] :
         /\ foreignKeyGet(relName, store.initial[relName][c], T)
              \in DOMAIN store.initial[T] \ DOMAIN store.current[T]
         /\ foreignKeyGet(relName, store.current[relName][c], T)
              \in DOMAIN store.current[T] \cap DOMAIN store.initial[T]

\* state() and the getters agree on the record r stored in current[T] under k
classified(s, T, k) ==
  LET r == s.current[T][k]
      st == state(s, T, r)
  IN  /\ (k \in DOMAIN getAllNew(s, T)) <=> (st = "NEW")
      /\ (k \in DOMAIN getAllChanged(s, T)) <=> (st = "MODIFIED")
      /\ (keyFor(T, r) \in DOMAIN s.deleted[T]) <=> (st = "DELETED")
      /\ st \notin {"NEW", "MODIFIED", "DELETED"}
           => /\ st = "UNCHANGED"
              /\ r = initialGet(s, T, keyFor(T, r))

\* getAllNew and getAllChanged of T share no key and hold no record whose
\* key is in deleted[T]
gettersDisjoint(s, T) ==
  /\ DOMAIN getAllNew(s, T) \cap DOMAIN getAllChanged(s, T) = {}
  /\ \A k \in DOMAIN getAllNew(s, T) \cup DOMAIN getAllChanged(s, T) :
       keyFor(T, s.current[T][k]) \notin DOMAIN s.deleted[T]

classifiedByValue(s, T, k) ==
  LET r == s.current[T][k]
      st == state(s, T, r)
  IN  /\ (k \in DOMAIN getAllNew(s, T)) <=> (st = "NEW")
      /\ (k \in DOMAIN getAllChanged(s, T)) <=> (st = "MODIFIED")
      /\ truthy(deletedGet(s, T, keyFor(T, r))) <=> (st = "DELETED")
      /\ st \notin {"NEW", "MODIFIED", "DELETED"}
           => /\ st = "UNCHANGED"
              /\ r = initialGet(s, T, keyFor(T, r))

\* the record of current[T] under k is stored under its own primary key, and
\* has an accepted value if it has a record in deleted
regular(s, T, k) ==
  /\ keyFor(T, s.current[T][k]) = k
  /\ truthy(deletedGet(s, T, k)) => truthy(initialGet(s, T, k))

Handled(name) == action.name = name

\* the batch of the last LOAD_RECORDS has a record with no key
keylessBatch ==
  \E i \in DOMAIN action.value.batch :
    ~truthyKey(getIn(action.value.batch[i], models[action.model].KEYPATH))

\* C37: LOAD_RECORDS and CREATE_RECORD for a model that is not registered
\* fail, and so does LOAD_RECORDS of a batch with a record that has no key;
\* the state of the cache is then what it was, with no record of the batch
\* loaded.
C37_FailedLoadChangesNothing ==
  /\ (Handled("LOAD_RECORDS") /\ (action.model \notin Models \/ keylessBatch))
       => /\ action.threw
          /\ cache = action.before
  /\ (Handled("CREATE_RECORD") /\ action.model \notin Models)
       => /\ action.threw
          /\ cache = action.before

\* C37's case: a batch for a registered model whose first record has a key,
\* that nothing was loaded under before, and whose second record has none
C37_Witness ==
  /\ Handled("LOAD_RECORDS") /\ action.model \in Models
  /\ Len(action.value.batch) = 2
  /\ truthyKey(getIn(action.value.batch[1], "id"))
  /\ ~truthyKey(getIn(action.value.batch[2], "id"))
  /\ getIn(action.value.batch[1], "id") \notin DOMAIN cache.initialValues[action.model]
  /\ cache # getInitialState

\* the last call was a dispatch
WorkerDispatched == calls # <<>> /\ calls[Len(calls)].name = "dispatch"

\* the calls that bind or clear the scope of the namespace
bindingCalls(namespace, scope) ==
  {i \in DOMAIN calls :
     /\ calls[i].name \in {"getDataBindings", "clearDataBindings"}
     /\ calls[i].namespace = namespace
     /\ calls[i].scope = scope \/ (calls[i].name = "clearDataBindings" /\ calls[i].scope = NoScope)}

\* the last of them was a clearDataBindings
cleared(namespace, scope) ==
  LET is == bindingCalls(namespace, scope)
  IN  /\ is # {}
      /\ calls[CHOOSE i \in is : \A j \in is : j <= i].name = "clearDataBindings"

\* C38 as claimed: a dispatch posts no valueChanged message for a namespace
\* and scope that clearDataBindings cleared last, and at most one for each
\* key of a namespace and scope.
C38_AsClaimed ==
  WorkerDispatched =>
    /\ \A m \in valueChanges : ~cleared(m.namespace, m.scope)
    /\ \A m, n \in valueChanges :
         (m.namespace = n.namespace /\ m.scope = n.scope /\ m.key = n.key) => m = n

\* C38's failing case: a scope was bound twice to the same key and then
\* cleared, and the dispatch after that posts two messages for the key
C38_Witness ==
  /\ WorkerDispatched
  /\ \E m, n \in valueChanges :
       /\ m # n
       /\ m.namespace = n.namespace /\ m.scope = n.scope /\ m.key = n.key
       /\ cleared(m.namespace, m.scope)

====
